---- MODULE Spec2Model ----
(***************************************************************************)
(* sshtail: the multi-connection session orchestrator.                     *)
(*                                                                         *)
(* The repository holds three generations of the consolidated writer:      *)
(*   "session"  pkg/sshtail, TailSession + completion barrier (WaitGroup), *)
(*              context-cancellable dispatch, auxiliary output files;      *)
(*   "client"   pkg/sshtail, TailSshClient, channel allocated by Start and *)
(*              closed by Close, non-blocking Start;                       *)
(*   "legacy"   pkg/specfile, TailSession with started/closed flags,       *)
(*              range-over-channel dispatch, in-Start signal goroutine.    *)
(* Each behaviour of the model is a run of one generation (variant).       *)
(* A Go panic in any goroutine ends the process: every action is guarded   *)
(* by panicked = "none".                                                   *)
(***************************************************************************)
EXTENDS Integers, Sequences, FiniteSets, TLC

\* ---------------------------------------------------------------- bounds
NumHosts == 2      \* hosts in a spec file
MaxLines == 1      \* writes the remote side makes per session
MaxOrderLines == 2 \* ... in the runs that look at the order of a session's lines
MaxCalls == 3      \* API calls the caller makes on one writer
MaxRunCalls == 2   \* ... when the writer has a cancellable dispatch goroutine
MaxFiles == 2      \* output files registered with AddOutputFile
ChanFactor == 1    \* stands for the 1024 of make(chan string, 1024*numHosts)

Hosts == 1..NumHosts
StartIds == 1..MaxCalls

\* Tasks that can execute ConsolidatedWriter.Close: the caller of the API,
\* the dispatch goroutine of the k-th Start (k), and signal goroutines: the
\* one of cmd/run.go (SignalTask(1)), or in the legacy generation the one
\* the k-th Start spawns (SignalTask(k)).
Caller == 0
SignalTask(k) == MaxCalls + k
Tasks == 0..(2 * MaxCalls)

VARIABLES
    variant,    \* which generation of the code runs
    build,      \* construction: [phase, n, keyLoads, dials]
    sess,       \* per host: transport, remote-execution handle, flags
    gor,        \* per host: the goroutine a session start spawns
    prod,       \* per host: the ssh library's stdout copier calling Write
    wgCount,    \* per Start call: counter of its sync.WaitGroup
    chans,      \* per channel id: queue and closed flag
    w,          \* writer fields: ch, closed, outputFiles
    out,        \* primary sink: lines written, in order
    ctxDone,    \* the context passed to Start is cancelled
    panicked,   \* "none", or the Go runtime panic that ended the process
    caller,     \* the API caller: its script, pc, loop index, history
    cls,        \* per task: position inside ConsolidatedWriter.Close
    dsp,        \* per Start call: its dispatch goroutine
    sig,        \* per signal goroutine: "none", "armed", "closing"
    specData,   \* the spec file's data under validation, and Validate's result
    wait        \* the readiness wait: its position, its context, the last probe

vars == <<variant, build, sess, gor, prod, wgCount, chans, w, out, ctxDone,
          panicked, caller, cls, dsp, sig, specData, wait>>

\* ------------------------------------------------------------ pure helpers

\* A SpecData that nothing has loaded, and a wait strategy nothing has called.
NoSpecData == [phase |-> "none"]
NoWait == [pc |-> "none"]

\* fmt.Sprintf("%s | %s", t.prefix, string(b)): tag, separator, raw bytes.
FormatLine(prefix, b) == <<prefix, " | ", b>>

\* fmt.Sprintf("[ %s ] %s", t.prefix, string(b)), the legacy generation.
Legacy_FormatLine(prefix, b) == <<"[ ", prefix, " ] ", b>>

\* Index of the first host whose key load or dial fails, 0 when none does.
FirstFail(outcome, n) ==
    IF \E i \in 1..n : outcome[i] # "ok"
    THEN CHOOSE i \in 1..n : outcome[i] # "ok" /\ \A j \in 1..(i-1) : outcome[j] = "ok"
    ELSE 0

\* All sequences over S of length at most n: the programs a caller may run.
RECURSIVE SeqsUpTo(_, _)
SeqsUpTo(S, n) ==
    IF n = 0 THEN {<<>>}
    ELSE LET shorter == SeqsUpTo(S, n - 1)
         IN  shorter \cup {Append(q, x) : q \in shorter, x \in S}

\* TailSession.Started: s.session != nil; in the legacy generation s.started.
Started(i) == IF variant = "legacy" THEN sess[i].started ELSE sess[i].ptr

\* TailSession.Closed: s.closed.
Closed(i) == sess[i].closed

NoSession == [tr |-> "none", ptr |-> FALSE, handle |-> "none", closed |-> FALSE,
              started |-> FALSE, wg |-> 0, och |-> 0, cmd |-> "none",
              hCloses |-> 0, tCloses |-> 0, launches |-> 0, ints |-> 0]

\* make(chan string, 1024*numHosts); make(chan string, numHosts) in the
\* legacy generation.
ChanCap == IF variant = "legacy" THEN build.n ELSE ChanFactor * build.n

\* The scripts of API calls a caller may run on one writer.
Scripts(ops, n) ==
    {sc \in SeqsUpTo(ops, n) :
       Cardinality({j \in 1..Len(sc) : sc[j] = "Add"}) <= MaxFiles}

\* ------------------------------------------------------------------- Init
\* The state before construction, for generation v, a caller that will run
\* one of the given scripts of API calls, and remote commands that write at
\* most the given number of chunks each.
InitWriter(variants, scripts, lines) ==
    /\ variant \in variants
    /\ build = [phase |-> "new", n |-> 0, keyLoads |-> 0, dials |-> 0]
    /\ sess = [i \in Hosts |-> NoSession]
    /\ gor = [i \in Hosts |-> [pc |-> "none", wg |-> 0]]
    /\ prod = [i \in Hosts |-> [pc |-> "idle", n |-> 0, max |-> lines]]
    /\ wgCount = [k \in StartIds |-> 0]
    /\ chans = [k \in StartIds |-> [q |-> <<>>, closed |-> FALSE]]
    /\ w = [ch |-> 0, closed |-> FALSE, files |-> <<>>]
    /\ out = <<>>
    /\ ctxDone = FALSE
    /\ panicked = "none"
    /\ \E sc \in scripts :
         caller = [pc |-> "idle", i |-> 0, wg |-> 0, err |-> 0, nStarts |-> 0,
                   script |-> sc, hist |-> <<>>, cancelAt |-> "never"]
    /\ cls = [t \in Tasks |-> [pc |-> "idle", i |-> 0]]
    /\ dsp = [k \in StartIds |-> [pc |-> "none", line |-> <<>>, ch |-> 0]]
    /\ sig = [k \in StartIds |-> "none"]

\* A run of the tail: no spec data is under validation, no readiness wait runs.
InitLines(variants, scripts, lines) ==
    /\ InitWriter(variants, scripts, lines)
    /\ specData = NoSpecData
    /\ wait = NoWait

InitWith(variants, scripts) == InitLines(variants, scripts, MaxLines)

\* No goroutine has panicked: the process is running.
Alive == panicked = "none"

\* The caller is between calls and its next call is op.
NextCall(op) ==
    /\ build.phase = "ready"
    /\ caller.pc = "idle"
    /\ caller.script # <<>>
    /\ Head(caller.script) = op

\* The caller's record after a call returned err.
Returned(op, err, at) ==
    [caller EXCEPT !.pc = "idle", !.script = Tail(@),
                   !.hist = Append(@, [op |-> op, err |-> err, at |-> at])]

\* ------------------------------------------------------------ construction

\* setupClients + NewConsolidatedWriter (session generation): Validate, then
\* per host LoadKey and ssh.Dial; the first failure returns (nil, err) and
\* nothing dialed so far is closed.
NewConsolidatedWriter ==
    /\ Alive
    /\ variant = "session"
    /\ build.phase = "new"
    /\ \E n \in 0..NumHosts : \E outcome \in [1..n -> {"ok", "key", "dial"}] :
         LET k == FirstFail(outcome, n)
             dialed(i) == IF k = 0 THEN i <= n ELSE i < k
         IN  IF n = 0
             THEN /\ build' = [build EXCEPT !.phase = "failed"]
                  /\ UNCHANGED <<sess, w>>
             ELSE /\ build' = [phase |-> IF k = 0 THEN "ready" ELSE "failed",
                               n |-> n,
                               keyLoads |-> IF k = 0 THEN n ELSE k,
                               dials |-> IF k = 0 THEN n
                                         ELSE IF outcome[k] = "key" THEN k - 1 ELSE k]
                  /\ sess' = [i \in Hosts |->
                                IF dialed(i) THEN [sess[i] EXCEPT !.tr = "open"]
                                ELSE sess[i]]
                  /\ w' = IF k = 0 THEN [w EXCEPT !.ch = 1] ELSE w
    /\ UNCHANGED <<specData, wait, variant, gor, prod, wgCount, chans, out, ctxDone, panicked,
                   caller, cls, dsp, sig>>

\* cmd/run.go: signal.Notify and the goroutine waiting on sigs, set up right
\* after the writer is constructed and before Start is called.
Signal_Arm ==
    /\ Alive
    /\ variant \in {"session", "client"}
    /\ build.phase = "ready"
    /\ caller.hist = <<>>
    /\ caller.pc = "idle"
    /\ sig[1] = "none"
    /\ sig' = [sig EXCEPT ![1] = "armed"]
    /\ UNCHANGED <<specData, wait, variant, build, sess, gor, prod, wgCount, chans, w, out,
                   ctxDone, panicked, caller, cls, dsp>>

\* ------------------------------------------------- entering writer Close
\* ConsolidatedWriter.Close, session generation: if c.closed { return nil }.
Session_Close_Entry ==
    IF w.closed THEN [pc |-> "ret", i |-> 0] ELSE [pc |-> "loop", i |-> 1]

\* ConsolidatedWriter.Close, client generation: if c.ch == nil { return nil }.
Client_Close_Entry ==
    IF w.ch = 0 THEN [pc |-> "ret", i |-> 0] ELSE [pc |-> "loop", i |-> 1]

\* The position of a task that has just called c.Close().
EnterClose ==
    IF variant = "client" THEN Client_Close_Entry
    ELSE IF variant = "legacy" THEN [pc |-> "loop", i |-> 1]
    ELSE Session_Close_Entry

\* The dispatch goroutine about to execute its select. The session and legacy
\* generations never assign c.ch, so the channel is the one made at
\* construction; the client generation reads the field c.ch in a step of its
\* own (Dispatch_Select), unsynchronised with Close's c.ch = nil.
AtSelect ==
    IF variant = "client" THEN [pc |-> "enter", line |-> <<>>, ch |-> 0]
    ELSE [pc |-> "select", line |-> <<>>, ch |-> w.ch]

\* ------------------------------------------------- session generation
\* ssh.Session.Close followed by ssh.Client.Close on one session: the
\* remote-execution handle and the transport are released; a running remote
\* command ends with its channel.
ReleaseSession(s) ==
    [s EXCEPT !.handle = "closed", !.tr = "closed",
              !.hCloses = @ + 1, !.tCloses = @ + 1,
              !.cmd = IF @ = "running" THEN "exited" ELSE @]

\* sync.WaitGroup.Done on the barrier a session points at: a nil pointer or
\* a counter below zero panics.
WgDonePanic(i) ==
    IF sess[i].wg = 0 THEN "nil pointer dereference"
    ELSE IF wgCount[sess[i].wg] = 0 THEN "sync: negative WaitGroup counter"
    ELSE "none"

\* TailSession.Start, called from the writer's start loop for session i with
\* barrier k: NewSession may fail; on success the handle is kept, the output
\* adapter is wired to the channel and the session goroutine is spawned
\* (the legacy generation then sets s.started).
TailSession_Start(i, k, ok) ==
    IF ok
    THEN /\ sess' = [sess EXCEPT ![i].ptr = TRUE, ![i].handle = "open",
                                 ![i].och = w.ch,
                                 ![i].started = (variant = "legacy")]
         /\ gor' = [gor EXCEPT ![i] = [pc |-> "spawned", wg |-> k]]
    ELSE /\ UNCHANGED <<sess, gor>>

\* ssh.Client.NewSession can succeed only on an open transport.
NewSessionOutcomes(i) == IF sess[i].tr = "open" THEN BOOLEAN ELSE {FALSE}

\* ConsolidatedWriter.Start is entered: a fresh WaitGroup, loop index 1.
Writer_Start_Call ==
    /\ Alive
    /\ variant \in {"session", "legacy"}
    /\ NextCall("Start")
    /\ caller' = [caller EXCEPT !.pc = "loop", !.i = 1, !.wg = caller.nStarts + 1,
                                !.nStarts = @ + 1]
    /\ UNCHANGED <<specData, wait, variant, build, sess, gor, prod, wgCount, chans, w, out,
                   ctxDone, panicked, cls, dsp, sig>>

\* One iteration of Start's loop over c.sessions: skip a started or closed
\* session, otherwise ts.Start; on its error, c.Close() and return the error.
Writer_Start_Loop ==
    /\ Alive
    /\ variant \in {"session", "legacy"}
    /\ caller.pc = "loop"
    /\ caller.i <= build.n
    /\ LET i == caller.i IN
       IF Started(i) \/ Closed(i)
       THEN /\ caller' = [caller EXCEPT !.i = i + 1]
            /\ UNCHANGED <<sess, gor, cls>>
       ELSE \E ok \in NewSessionOutcomes(i) :
              /\ TailSession_Start(i, caller.wg, ok)
              /\ IF ok
                 THEN /\ caller' = [caller EXCEPT !.i = i + 1]
                      /\ UNCHANGED cls
                 ELSE /\ caller' = [caller EXCEPT !.pc = "failclose", !.err = i]
                      /\ cls' = [cls EXCEPT ![Caller] = EnterClose]
    /\ UNCHANGED <<specData, wait, variant, build, prod, wgCount, chans, w, out, ctxDone,
                   panicked, dsp, sig>>

\* Start's failure path: c.Close() has returned, Start returns the error.
Writer_Start_Fail ==
    /\ Alive
    /\ caller.pc = "failclose"
    /\ cls[Caller].pc = "ret"
    /\ caller' = Returned("Start", "session", caller.err)
    /\ cls' = [cls EXCEPT ![Caller].pc = "idle"]
    /\ UNCHANGED <<specData, wait, variant, build, sess, gor, prod, wgCount, chans, w, out,
                   ctxDone, panicked, dsp, sig>>

\* After the loop: the dispatch goroutine is spawned, Start goes on to wg.Wait.
Writer_Start_Spawn ==
    /\ Alive
    /\ variant = "session"
    /\ caller.pc = "loop"
    /\ caller.i > build.n
    /\ dsp' = [dsp EXCEPT ![caller.wg] = AtSelect]
    /\ caller' = [caller EXCEPT !.pc = "wait"]
    /\ UNCHANGED <<specData, wait, variant, build, sess, gor, prod, wgCount, chans, w, out,
                   ctxDone, panicked, cls, sig>>

\* wg.Wait() returns once the counter is zero; Start returns nil.
Writer_Start_Wait ==
    /\ Alive
    /\ caller.pc = "wait"
    /\ wgCount[caller.wg] = 0
    /\ caller' = Returned("Start", "nil", 0)
    /\ UNCHANGED <<specData, wait, variant, build, sess, gor, prod, wgCount, chans, w, out,
                   ctxDone, panicked, cls, dsp, sig>>

\* The goroutine spawned by a session start: wg.Add(1).
Session_Go_Add(i) ==
    /\ Alive
    /\ gor[i].pc = "spawned"
    /\ wgCount' = [wgCount EXCEPT ![gor[i].wg] = @ + 1]
    /\ gor' = [gor EXCEPT ![i].pc = "added"]
    /\ UNCHANGED <<specData, wait, variant, build, sess, prod, chans, w, out, ctxDone, panicked,
                   caller, cls, dsp, sig>>

\* ... then s.wg = wg and session.Run("tail -f <file>"): the remote command
\* is launched unless the handle was closed meanwhile (Run fails, the error
\* is dropped). Run blocks until the remote command has ended; the goroutine
\* then ends without touching the barrier.
Session_Go_Run(i) ==
    /\ Alive
    /\ gor[i].pc = "added"
    /\ sess' = [sess EXCEPT ![i].wg = gor[i].wg,
                            ![i].cmd = IF sess[i].handle = "open" THEN "running" ELSE @,
                            ![i].launches = IF sess[i].handle = "open" THEN @ + 1 ELSE @]
    /\ gor' = [gor EXCEPT ![i].pc = "run"]
    /\ UNCHANGED <<specData, wait, variant, build, prod, wgCount, chans, w, out, ctxDone,
                   panicked, caller, cls, dsp, sig>>

\* A session goroutine that reacted to the end of its command by closing its
\* session.
Remote_Exit_ClosesSession(i) ==
    /\ Alive
    /\ sess[i].cmd = "running"
    /\ sess' = [sess EXCEPT ![i] = [ReleaseSession(@) EXCEPT !.closed = TRUE]]
    /\ UNCHANGED <<specData, wait, variant, build, gor, prod, wgCount, chans, w, out, ctxDone,
                   panicked, caller, cls, dsp, sig>>

\* The remote tail command ends by itself (the file disappeared, ...).
Remote_Exit(i) ==
    /\ Alive
    /\ sess[i].cmd = "running"
    /\ sess' = [sess EXCEPT ![i].cmd = "exited"]
    /\ UNCHANGED <<specData, wait, variant, build, gor, prod, wgCount, chans, w, out, ctxDone,
                   panicked, caller, cls, dsp, sig>>

\* One iteration of Close's loop: skip a session that is not started or is
\* closed; otherwise TailSession.Close up to its error check: session.Close,
\* client.Close, and return the combined error when either failed.
Writer_Close_Loop(t) ==
    /\ Alive
    /\ variant = "session"
    /\ cls[t].pc = "loop"
    /\ cls[t].i <= build.n
    /\ LET i == cls[t].i IN
       IF ~Started(i) \/ Closed(i)
       THEN /\ cls' = [cls EXCEPT ![t].i = i + 1]
            /\ UNCHANGED sess
       ELSE \E e1 \in BOOLEAN, e2 \in BOOLEAN :
              /\ sess' = [sess EXCEPT ![i] = ReleaseSession(@)]
              /\ cls' = [cls EXCEPT ![t] = IF e1 \/ e2 THEN [pc |-> "loop", i |-> i + 1]
                                           ELSE [pc |-> "mark", i |-> i]]
    /\ UNCHANGED <<specData, wait, variant, build, gor, prod, wgCount, chans, w, out, ctxDone,
                   panicked, caller, dsp, sig>>

\* TailSession.Close, no error: s.closed = true; s.wg.Done().
TailSession_Close_Mark(t) ==
    /\ Alive
    /\ variant = "session"
    /\ cls[t].pc = "mark"
    /\ LET i == cls[t].i IN
       /\ sess' = [sess EXCEPT ![i].closed = TRUE]
       /\ panicked' = WgDonePanic(i)
       /\ wgCount' = IF WgDonePanic(i) = "none"
                     THEN [wgCount EXCEPT ![sess[i].wg] = @ - 1] ELSE wgCount
       /\ cls' = [cls EXCEPT ![t] = [pc |-> "loop", i |-> i + 1]]
    /\ UNCHANGED <<specData, wait, variant, build, gor, prod, chans, w, out, ctxDone, caller,
                   dsp, sig>>

\* os.File.Close on every output file (a closed file stays closed; the
\* call on a closed file returns an error, which the writer drops).
CloseFiles(files) ==
    [j \in 1..Len(files) |-> [files[j] EXCEPT !.open = FALSE, !.closes = @ + 1]]

\* Close, after the loop: close the output files, c.closed = true, return nil.
Writer_Close_Fin(t) ==
    /\ Alive
    /\ variant = "session"
    /\ cls[t].pc = "loop"
    /\ cls[t].i > build.n
    /\ w' = [w EXCEPT !.files = CloseFiles(@), !.closed = TRUE]
    /\ cls' = [cls EXCEPT ![t] = [pc |-> "ret", i |-> 0]]
    /\ UNCHANGED <<specData, wait, variant, build, sess, gor, prod, wgCount, chans, out, ctxDone,
                   panicked, caller, dsp, sig>>

\* The API caller invokes ConsolidatedWriter.Close.
Writer_Close_Call ==
    /\ Alive
    /\ NextCall("Close")
    /\ caller' = [caller EXCEPT !.pc = "close"]
    /\ cls' = [cls EXCEPT ![Caller] = EnterClose]
    /\ UNCHANGED <<specData, wait, variant, build, sess, gor, prod, wgCount, chans, w, out,
                   ctxDone, panicked, dsp, sig>>

\* ... and Close returns nil to it.
Writer_Close_Return ==
    /\ Alive
    /\ caller.pc = "close"
    /\ cls[Caller].pc = "ret"
    /\ caller' = Returned("Close", "nil", 0)
    /\ cls' = [cls EXCEPT ![Caller].pc = "idle"]
    /\ UNCHANGED <<specData, wait, variant, build, sess, gor, prod, wgCount, chans, w, out,
                   ctxDone, panicked, dsp, sig>>

\* AddOutputFile without its error check: the file is appended whatever
\* file.Stat() returned.
AddOutputFile_IgnoresStat ==
    /\ Alive
    /\ variant \in {"session", "legacy"}
    /\ NextCall("Add")
    /\ \E statOk \in BOOLEAN :
         /\ w' = [w EXCEPT !.files = Append(@, [open |-> TRUE, data |-> <<>>, closes |-> 0, writes |-> 0])]
         /\ caller' = Returned("Add", IF statOk THEN "nil" ELSE "stat", 0)
    /\ UNCHANGED <<specData, wait, variant, build, sess, gor, prod, wgCount, chans, out, ctxDone,
                   panicked, cls, dsp, sig>>

\* ConsolidatedWriter.AddOutputFile: file.Stat() fails and the error is
\* returned, or the file is appended to c.outputFiles.
AddOutputFile ==
    /\ Alive
    /\ variant \in {"session", "legacy"}
    /\ NextCall("Add")
    /\ \E statOk \in BOOLEAN :
         IF statOk
         THEN /\ w' = [w EXCEPT !.files = Append(@, [open |-> TRUE, data |-> <<>>, closes |-> 0, writes |-> 0])]
              /\ caller' = Returned("Add", "nil", 0)
         ELSE /\ w' = w
              /\ caller' = Returned("Add", "stat", 0)
    /\ UNCHANGED <<specData, wait, variant, build, sess, gor, prod, wgCount, chans, out, ctxDone,
                   panicked, cls, dsp, sig>>

\* A signal goroutine: <-sigs, then writer.Close(); the goroutine ends when
\* Close has returned.
Signal_Close(k) ==
    /\ Alive
    /\ sig[k] = "armed"
    /\ sig' = [sig EXCEPT ![k] = "closing"]
    /\ cls' = [cls EXCEPT ![SignalTask(k)] = EnterClose]
    /\ UNCHANGED <<specData, wait, variant, build, sess, gor, prod, wgCount, chans, w, out,
                   ctxDone, panicked, caller, dsp>>

\* The context passed to Start is cancelled (cancel() of the embedding code);
\* the caller's record keeps whether the latest Start had spawned its
\* dispatch goroutine at that moment ("running") or not ("early").
Cancel ==
    /\ Alive
    /\ variant \in {"session", "client"}
    /\ build.phase = "ready"
    /\ ~ctxDone
    /\ ctxDone' = TRUE
    /\ caller' = [caller EXCEPT !.cancelAt =
                      IF caller.nStarts > 0 /\ dsp[caller.nStarts].pc # "none"
                      THEN "running" ELSE "early"]
    /\ UNCHANGED <<specData, wait, variant, build, sess, gor, prod, wgCount, chans, w, out,
                   panicked, cls, dsp, sig>>

\* TailChannelWriter.Write is entered by the ssh library's stdout copier of
\* session i with the next chunk b of remote output: the line is formatted.
Write_Format(i) ==
    /\ Alive
    /\ prod[i].pc = "idle"
    /\ prod[i].n < prod[i].max
    /\ sess[i].handle = "open"
    /\ sess[i].cmd = "running"
    /\ prod' = [prod EXCEPT ![i].pc = "send", ![i].n = @ + 1]
    /\ UNCHANGED <<specData, wait, variant, build, sess, gor, wgCount, chans, w, out, ctxDone,
                   panicked, caller, cls, dsp, sig>>

\* t.ch <- line: blocks while the channel is full (or nil), panics when the
\* channel is closed, otherwise enqueues; Write returns len(b), nil.
Write_Send(i) ==
    /\ Alive
    /\ prod[i].pc = "send"
    /\ sess[i].och # 0
    /\ LET c == sess[i].och
           line == IF variant = "legacy"
                   THEN Legacy_FormatLine(i, <<i, prod[i].n>>)
                   ELSE FormatLine(i, <<i, prod[i].n>>)
       IN  IF chans[c].closed
           THEN /\ panicked' = "send on closed channel"
                /\ UNCHANGED <<chans, prod>>
           ELSE /\ Len(chans[c].q) < ChanCap
                /\ chans' = [chans EXCEPT ![c].q = Append(@, line)]
                /\ prod' = [prod EXCEPT ![i].pc = "idle"]
                /\ UNCHANGED panicked
    /\ UNCHANGED <<specData, wait, variant, build, sess, gor, wgCount, w, out, ctxDone, caller,
                   cls, dsp, sig>>

\* Client generation: the select evaluates the channel operand c.ch.
Dispatch_Select(d) ==
    /\ Alive
    /\ dsp[d].pc = "enter"
    /\ dsp' = [dsp EXCEPT ![d] = [pc |-> "select", line |-> <<>>, ch |-> w.ch]]
    /\ UNCHANGED <<specData, wait, variant, build, sess, gor, prod, wgCount, chans, w, out, ctxDone,
                   panicked, caller, cls, sig>>

\* Dispatch goroutine, case line, ok := <-c.ch with ok: a line is dequeued
\* from the channel c.ch named when the select was entered.
Dispatch_Recv(d) ==
    /\ Alive
    /\ dsp[d].pc = "select"
    /\ dsp[d].ch # 0
    /\ chans[dsp[d].ch].q # <<>>
    /\ dsp' = [dsp EXCEPT ![d].pc = "write", ![d].line = Head(chans[dsp[d].ch].q)]
    /\ chans' = [chans EXCEPT ![dsp[d].ch].q = Tail(@)]
    /\ UNCHANGED <<specData, wait, variant, build, sess, gor, prod, wgCount, w, out, ctxDone,
                   panicked, caller, cls, sig>>

\* o.WriteString(line) on one file: a closed file always fails, an open one
\* may fail; a failure is reported on stderr and nothing else happens.
WriteFile(f, line, ok) ==
    IF f.open /\ ok THEN [f EXCEPT !.data = Append(@, line), !.writes = @ + 1]
    ELSE [f EXCEPT !.writes = @ + 1]

\* A loop over the output files that would stop at the first failed write;
\* the code has no break or return there.
WriteFiles_StopAtFailure(files, line, ok) ==
    LET failed(j) == ~(files[j].open /\ ok[j])
    IN  [j \in 1..Len(files) |->
           IF \E h \in 1..(j - 1) : failed(h) THEN files[j]
           ELSE WriteFile(files[j], line, ok[j])]

\* for _, o := range c.outputFiles { o.WriteString(line) ... }: every file in
\* registration order, whatever the writes before it returned.
WriteFiles(files, line, ok) ==
    [j \in 1..Len(files) |-> WriteFile(files[j], line, ok[j])]

\* Dispatch goroutine: c.out.Write(line), then for each output file in
\* registration order o.WriteString(line); back to the select, which reads
\* c.ch anew.
Dispatch_Write(d) ==
    /\ Alive
    /\ dsp[d].pc = "write"
    /\ out' = Append(out, dsp[d].line)
    /\ \E ok \in [1..Len(w.files) -> BOOLEAN] :
         w' = [w EXCEPT !.files = WriteFiles(@, dsp[d].line, ok)]
    /\ dsp' = [dsp EXCEPT ![d] = AtSelect]
    /\ UNCHANGED <<specData, wait, variant, build, sess, gor, prod, wgCount, chans, ctxDone,
                   panicked, caller, cls, sig>>

\* Dispatch goroutine, case <-c.ch with !ok (closed and drained): c.Close(),
\* then return.
Dispatch_ChanClosed(d) ==
    /\ Alive
    /\ variant \in {"session", "client"}
    /\ dsp[d].pc = "select"
    /\ dsp[d].ch # 0
    /\ chans[dsp[d].ch].q = <<>>
    /\ chans[dsp[d].ch].closed
    /\ dsp' = [dsp EXCEPT ![d].pc = "close"]
    /\ cls' = [cls EXCEPT ![d] = EnterClose]
    /\ UNCHANGED <<specData, wait, variant, build, sess, gor, prod, wgCount, chans, w, out,
                   ctxDone, panicked, caller, sig>>

\* Dispatch goroutine, case <-ctx.Done(): c.Close(), then return.
Dispatch_Cancel(d) ==
    /\ Alive
    /\ variant \in {"session", "client"}
    /\ dsp[d].pc = "select"
    /\ ctxDone
    /\ dsp' = [dsp EXCEPT ![d].pc = "close"]
    /\ cls' = [cls EXCEPT ![d] = EnterClose]
    /\ UNCHANGED <<specData, wait, variant, build, sess, gor, prod, wgCount, chans, w, out,
                   ctxDone, panicked, caller, sig>>

\* -------------------------------------------------- client generation
\* setupClients + NewConsolidatedWriter (client generation): no validation;
\* per host NewTailSshClient (LoadKey, ssh.Dial); the first failure returns
\* (nil, err) and nothing dialed so far is closed. The channel stays nil.
Client_NewConsolidatedWriter ==
    /\ Alive
    /\ variant = "client"
    /\ build.phase = "new"
    /\ \E n \in 0..NumHosts : \E outcome \in [1..n -> {"ok", "key", "dial"}] :
         LET k == FirstFail(outcome, n)
             dialed(i) == IF k = 0 THEN i <= n ELSE i < k
         IN  /\ build' = [phase |-> IF k = 0 THEN "ready" ELSE "failed",
                          n |-> n,
                          keyLoads |-> IF k = 0 THEN n ELSE k,
                          dials |-> IF k = 0 THEN n
                                    ELSE IF outcome[k] = "key" THEN k - 1 ELSE k]
             /\ sess' = [i \in Hosts |->
                           IF dialed(i) THEN [sess[i] EXCEPT !.tr = "open"]
                           ELSE sess[i]]
    /\ UNCHANGED <<specData, wait, variant, gor, prod, wgCount, chans, w, out, ctxDone, panicked,
                   caller, cls, dsp, sig>>

\* TailSshClient.Started: c.session != nil.
Client_Started(i) == sess[i].ptr

\* TailSshClient.StartSession(ch) on client i: NewSession, Stdout adapter,
\* session.Start(cmd); c.session is set only when all of it succeeded, and a
\* handle whose command failed to start is left as it is.
TailSshClient_StartSession(i, res) ==
    sess' = [sess EXCEPT ![i] =
               IF res = "ok"
               THEN [@ EXCEPT !.ptr = TRUE, !.handle = "open", !.och = w.ch,
                              !.cmd = "running", !.launches = @ + 1]
               ELSE IF res = "cmd"
               THEN [@ EXCEPT !.handle = "open", !.och = w.ch]
               ELSE @]

\* What StartSession can return: nothing succeeds on a closed transport.
StartSessionOutcomes(i) ==
    IF sess[i].tr = "open" THEN {"ok", "session", "cmd"} ELSE {"session"}

\* ConsolidatedWriter.Start is entered: "already started" when c.ch != nil,
\* otherwise c.ch = make(chan string, 1024*len(c.clients)).
Client_Start_Call ==
    /\ Alive
    /\ variant = "client"
    /\ NextCall("Start")
    /\ IF w.ch # 0
       THEN /\ caller' = Returned("Start", "already started", 0)
            /\ w' = w
       ELSE /\ caller' = [caller EXCEPT !.pc = "loop", !.i = 1,
                                        !.wg = caller.nStarts + 1, !.nStarts = @ + 1]
            /\ w' = [w EXCEPT !.ch = caller.nStarts + 1]
    /\ UNCHANGED <<specData, wait, variant, build, sess, gor, prod, wgCount, chans, out,
                   ctxDone, panicked, cls, dsp, sig>>

\* One iteration of Start's loop over c.clients: skip a started client,
\* otherwise client.StartSession(c.ch); on its error, c.Close() and return it.
Client_Start_Loop ==
    /\ Alive
    /\ variant = "client"
    /\ caller.pc = "loop"
    /\ caller.i <= build.n
    /\ LET i == caller.i IN
       IF Client_Started(i)
       THEN /\ caller' = [caller EXCEPT !.i = i + 1]
            /\ UNCHANGED <<sess, cls>>
       ELSE \E res \in StartSessionOutcomes(i) :
              /\ TailSshClient_StartSession(i, res)
              /\ IF res = "ok"
                 THEN /\ caller' = [caller EXCEPT !.i = i + 1]
                      /\ UNCHANGED cls
                 ELSE /\ caller' = [caller EXCEPT !.pc = "failclose", !.err = i]
                      /\ cls' = [cls EXCEPT ![Caller] = EnterClose]
    /\ UNCHANGED <<specData, wait, variant, build, gor, prod, wgCount, chans, w, out, ctxDone,
                   panicked, dsp, sig>>

\* After the loop: the dispatch goroutine is spawned and Start returns nil.
Client_Start_Spawn ==
    /\ Alive
    /\ variant = "client"
    /\ caller.pc = "loop"
    /\ caller.i > build.n
    /\ dsp' = [dsp EXCEPT ![caller.wg] = AtSelect]
    /\ caller' = Returned("Start", "nil", 0)
    /\ UNCHANGED <<specData, wait, variant, build, sess, gor, prod, wgCount, chans, w, out,
                   ctxDone, panicked, cls, sig>>

\* One iteration of Close's loop: if !ts.Started() { continue }.
Client_Close_Loop(t) ==
    /\ Alive
    /\ variant = "client"
    /\ cls[t].pc = "loop"
    /\ cls[t].i <= build.n
    /\ cls' = [cls EXCEPT ![t] = IF Client_Started(cls[t].i)
                                 THEN [pc |-> "tsclose", i |-> cls[t].i]
                                 ELSE [pc |-> "loop", i |-> cls[t].i + 1]]
    /\ UNCHANGED <<specData, wait, variant, build, sess, gor, prod, wgCount, chans, w, out,
                   ctxDone, panicked, caller, dsp, sig>>

\* TailSshClient.Close: with a session, Signal(SIGINT), session.Close and
\* c.session = nil; then client.Close(), whose error the writer drops.
TailSshClient_Close(s) ==
    [s EXCEPT !.ptr = FALSE,
              !.ints = IF s.ptr THEN @ + 1 ELSE @,
              !.handle = IF s.ptr THEN "closed" ELSE @,
              !.hCloses = IF s.ptr THEN @ + 1 ELSE @,
              !.cmd = IF s.ptr /\ @ = "running" THEN "exited" ELSE @,
              !.tr = "closed", !.tCloses = @ + 1]

\* Close's loop: _ = ts.Close().
Client_Close_Session(t) ==
    /\ Alive
    /\ variant = "client"
    /\ cls[t].pc = "tsclose"
    /\ sess' = [sess EXCEPT ![cls[t].i] = TailSshClient_Close(@)]
    /\ cls' = [cls EXCEPT ![t] = [pc |-> "loop", i |-> cls[t].i + 1]]
    /\ UNCHANGED <<specData, wait, variant, build, gor, prod, wgCount, chans, w, out, ctxDone,
                   panicked, caller, dsp, sig>>

\* close(c.ch): closing a nil or an already closed channel panics.
CloseChanPanic ==
    IF w.ch = 0 THEN "close of nil channel"
    ELSE IF chans[w.ch].closed THEN "close of closed channel"
    ELSE "none"

\* Close, after the loop: close(c.ch).
Client_Close_Chan(t) ==
    /\ Alive
    /\ variant = "client"
    /\ cls[t].pc = "loop"
    /\ cls[t].i > build.n
    /\ panicked' = CloseChanPanic
    /\ chans' = IF CloseChanPanic = "none"
                THEN [chans EXCEPT ![w.ch].closed = TRUE] ELSE chans
    /\ cls' = [cls EXCEPT ![t] = [pc |-> "nil", i |-> 0]]
    /\ UNCHANGED <<specData, wait, variant, build, sess, gor, prod, wgCount, w, out, ctxDone,
                   caller, dsp, sig>>

\* Close, last statements: c.ch = nil; return nil.
Client_Close_Nil(t) ==
    /\ Alive
    /\ variant = "client"
    /\ cls[t].pc = "nil"
    /\ w' = [w EXCEPT !.ch = 0]
    /\ cls' = [cls EXCEPT ![t] = [pc |-> "ret", i |-> 0]]
    /\ UNCHANGED <<specData, wait, variant, build, sess, gor, prod, wgCount, chans, out, ctxDone,
                   panicked, caller, dsp, sig>>

\* -------------------------------------------------- legacy generation
\* setupClients + NewConsolidatedWriter (legacy generation): Validate, then
\* createKnownHostsCallback, then per host LoadKey and ssh.Dial; the first
\* failure returns (nil, err) and nothing dialed so far is closed.
Legacy_NewConsolidatedWriter ==
    /\ Alive
    /\ variant = "legacy"
    /\ build.phase = "new"
    /\ \E n \in 0..NumHosts : \E knownHostsOk \in BOOLEAN :
       \E outcome \in [1..n -> {"ok", "key", "dial"}] :
         LET k == FirstFail(outcome, n)
             dialed(i) == IF k = 0 THEN i <= n ELSE i < k
         IN  IF n = 0 \/ ~knownHostsOk
             THEN /\ build' = [build EXCEPT !.phase = "failed"]
                  /\ UNCHANGED <<sess, w>>
             ELSE /\ build' = [phase |-> IF k = 0 THEN "ready" ELSE "failed",
                               n |-> n,
                               keyLoads |-> IF k = 0 THEN n ELSE k,
                               dials |-> IF k = 0 THEN n
                                         ELSE IF outcome[k] = "key" THEN k - 1 ELSE k]
                  /\ sess' = [i \in Hosts |->
                                IF dialed(i) THEN [sess[i] EXCEPT !.tr = "open"]
                                ELSE sess[i]]
                  /\ w' = IF k = 0 THEN [w EXCEPT !.ch = 1] ELSE w
    /\ UNCHANGED <<specData, wait, variant, gor, prod, wgCount, chans, out, ctxDone, panicked,
                   caller, cls, dsp, sig>>

\* Start, after the loop: the dispatch goroutine (for line := range c.ch) and
\* the signal goroutine are spawned, Start goes on to wg.Wait.
Legacy_Start_Spawn ==
    /\ Alive
    /\ variant = "legacy"
    /\ caller.pc = "loop"
    /\ caller.i > build.n
    /\ dsp' = [dsp EXCEPT ![caller.wg] = AtSelect]
    /\ sig' = [sig EXCEPT ![caller.wg] = "armed"]
    /\ caller' = [caller EXCEPT !.pc = "wait"]
    /\ UNCHANGED <<specData, wait, variant, build, sess, gor, prod, wgCount, chans, w, out,
                   ctxDone, panicked, cls>>

\* One iteration of Close's loop: if ts.Started() && !ts.Closed(), ts.Close()
\* is entered and passes its own if !s.closed.
Legacy_Close_Loop(t) ==
    /\ Alive
    /\ variant = "legacy"
    /\ cls[t].pc = "loop"
    /\ cls[t].i <= build.n
    /\ cls' = [cls EXCEPT ![t] = IF Started(cls[t].i) /\ ~Closed(cls[t].i)
                                 THEN [pc |-> "tsclose", i |-> cls[t].i]
                                 ELSE [pc |-> "loop", i |-> cls[t].i + 1]]
    /\ UNCHANGED <<specData, wait, variant, build, sess, gor, prod, wgCount, chans, w, out,
                   ctxDone, panicked, caller, dsp, sig>>

\* TailSession.Close (legacy): s.closed = true, session.Close, client.Close
\* with their errors collected, then s.wg.Done() whatever they returned.
Legacy_TailSession_Close(t) ==
    /\ Alive
    /\ variant = "legacy"
    /\ cls[t].pc = "tsclose"
    /\ LET i == cls[t].i IN
       /\ sess' = [sess EXCEPT ![i] = [ReleaseSession(@) EXCEPT !.closed = TRUE]]
       /\ panicked' = WgDonePanic(i)
       /\ wgCount' = IF WgDonePanic(i) = "none"
                     THEN [wgCount EXCEPT ![sess[i].wg] = @ - 1] ELSE wgCount
       /\ cls' = [cls EXCEPT ![t] = [pc |-> "loop", i |-> i + 1]]
    /\ UNCHANGED <<specData, wait, variant, build, gor, prod, chans, w, out, ctxDone, caller,
                   dsp, sig>>

\* Close, after the loop: close the output files, return nil.
Legacy_Close_Fin(t) ==
    /\ Alive
    /\ variant = "legacy"
    /\ cls[t].pc = "loop"
    /\ cls[t].i > build.n
    /\ w' = [w EXCEPT !.files = CloseFiles(@)]
    /\ cls' = [cls EXCEPT ![t] = [pc |-> "ret", i |-> 0]]
    /\ UNCHANGED <<specData, wait, variant, build, sess, gor, prod, wgCount, chans, out, ctxDone,
                   panicked, caller, dsp, sig>>

\* --------------------------------------------------------- specifications
\* The session generation used as a library: any short sequence of Start,
\* Close and AddOutputFile calls by one caller, and cancellation.
NextSession ==
    \/ NewConsolidatedWriter
    \/ Writer_Start_Call
    \/ Writer_Start_Loop
    \/ Writer_Start_Fail
    \/ Writer_Start_Spawn
    \/ Writer_Start_Wait
    \/ \E i \in Hosts : Session_Go_Add(i)
    \/ \E i \in Hosts : Session_Go_Run(i)
    \/ \E i \in Hosts : Remote_Exit(i)
    \/ \E i \in Hosts : Write_Format(i)
    \/ \E i \in Hosts : Write_Send(i)
    \/ \E t \in Tasks : Writer_Close_Loop(t)
    \/ \E t \in Tasks : TailSession_Close_Mark(t)
    \/ \E t \in Tasks : Writer_Close_Fin(t)
    \/ \E d \in StartIds : Dispatch_Recv(d)
    \/ \E d \in StartIds : Dispatch_Write(d)
    \/ \E d \in StartIds : Dispatch_Cancel(d)
    \/ Cancel
    \/ Writer_Close_Call
    \/ Writer_Close_Return
    \/ AddOutputFile

InitSession == InitWith({"session"}, Scripts({"Start", "Close", "Add"}, MaxRunCalls))

SpecSession == InitSession /\ [][NextSession]_vars

\* The client generation: the caller starts the writer and may close it, the
\* signal goroutine closes it, the context is cancelled.
NextClient ==
    \/ Client_NewConsolidatedWriter
    \/ Client_Start_Call
    \/ Client_Start_Loop
    \/ Client_Start_Spawn
    \/ Writer_Start_Fail
    \/ Writer_Close_Call
    \/ Writer_Close_Return
    \/ \E i \in Hosts : Remote_Exit(i)
    \/ \E i \in Hosts : Write_Format(i)
    \/ \E i \in Hosts : Write_Send(i)
    \/ \E t \in Tasks : Client_Close_Loop(t)
    \/ \E t \in Tasks : Client_Close_Session(t)
    \/ \E t \in Tasks : Client_Close_Chan(t)
    \/ \E t \in Tasks : Client_Close_Nil(t)
    \/ \E d \in StartIds : Dispatch_Select(d)
    \/ \E d \in StartIds : Dispatch_Recv(d)
    \/ \E d \in StartIds : Dispatch_Write(d)
    \/ \E d \in StartIds : Dispatch_ChanClosed(d)
    \/ \E d \in StartIds : Dispatch_Cancel(d)
    \/ Signal_Arm
    \/ \E k \in StartIds : Signal_Close(k)
    \/ Cancel

InitClient == InitWith({"client"}, Scripts({"Start", "Close"}, MaxRunCalls))

SpecClient == InitClient /\ [][NextClient]_vars
\* The legacy generation: Start spawns its own signal goroutine; the caller
\* may register output files and close the writer.
NextLegacy ==
    \/ Legacy_NewConsolidatedWriter
    \/ Writer_Start_Call
    \/ Writer_Start_Loop
    \/ Writer_Start_Fail
    \/ Legacy_Start_Spawn
    \/ Writer_Start_Wait
    \/ Writer_Close_Call
    \/ Writer_Close_Return
    \/ AddOutputFile
    \/ \E i \in Hosts : Session_Go_Add(i)
    \/ \E i \in Hosts : Session_Go_Run(i)
    \/ \E i \in Hosts : Remote_Exit(i)
    \/ \E i \in Hosts : Write_Format(i)
    \/ \E i \in Hosts : Write_Send(i)
    \/ \E t \in Tasks : Legacy_Close_Loop(t)
    \/ \E t \in Tasks : Legacy_TailSession_Close(t)
    \/ \E t \in Tasks : Legacy_Close_Fin(t)
    \/ \E d \in StartIds : Dispatch_Recv(d)
    \/ \E d \in StartIds : Dispatch_Write(d)
    \/ \E k \in StartIds : Signal_Close(k)

InitLegacy == InitWith({"legacy"}, Scripts({"Start", "Close", "Add"}, MaxCalls))

SpecLegacy == InitLegacy /\ [][NextLegacy]_vars
\* The session generation as cmd/run.go and the integration test drive it:
\* one Start and no other call by the caller, the signal goroutine,
\* cancellation.
StepsRun ==
    \/ Writer_Start_Call
    \/ Writer_Start_Loop
    \/ Writer_Start_Fail
    \/ Writer_Start_Spawn
    \/ Writer_Start_Wait
    \/ \E i \in Hosts : Session_Go_Add(i)
    \/ \E i \in Hosts : Session_Go_Run(i)
    \/ \E i \in Hosts : Write_Send(i)
    \/ \E t \in Tasks : Writer_Close_Loop(t)
    \/ \E t \in Tasks : TailSession_Close_Mark(t)
    \/ \E t \in Tasks : Writer_Close_Fin(t)
    \/ \E d \in StartIds : Dispatch_Recv(d)
    \/ \E d \in StartIds : Dispatch_Write(d)
    \/ \E d \in StartIds : Dispatch_Cancel(d)

NextRun ==
    \/ NewConsolidatedWriter
    \/ Signal_Arm
    \/ StepsRun
    \/ \E i \in Hosts : Remote_Exit(i)
    \/ \E i \in Hosts : Write_Format(i)
    \/ \E k \in StartIds : Signal_Close(k)
    \/ Cancel

InitRun == InitWith({"session"}, {<<"Start">>})

SpecRun == InitRun /\ [][NextRun]_vars

\* The Go scheduler runs every goroutine that can take a step: the steps of
\* the program are weakly fair; those of its environment (construction
\* outcomes, signals, cancellation, the remote side) are not.
FairRun == SpecRun /\ WF_vars(StepsRun)

\* ----------------------------------------------------------------- claims

\* Session i's remote-execution handle and transport have been closed.
Released(i) == sess[i].handle = "closed" /\ sess[i].tr = "closed"

\* Start has returned nil to the caller.
StartReturnedNil ==
    \E j \in 1..Len(caller.hist) :
       caller.hist[j].op = "Start" /\ caller.hist[j].err = "nil"

\* Start has returned the start error of session k to the caller.
StartFailedAt(k) ==
    \E j \in 1..Len(caller.hist) :
       caller.hist[j] = [op |-> "Start", err |-> "session", at |-> k]

\* C1: once a Start on a writer with N >= 1 hosts has returned nil, a session
\* task was launched for each of the N sessions and all N sessions have been
\* closed.
C1_StartReturnsAfterAllSessionsClosed ==
    StartReturnedNil =>
        \A i \in 1..build.n : gor[i].pc # "none" /\ Released(i)

\* C8: when construction has failed, no transport dialed during the attempt
\* is still open.
C8_FailedConstructionLeavesNoTransportOpen ==
    build.phase = "failed" => \A i \in Hosts : sess[i].tr # "open"

\* C9: once Start has returned a session's start error, every transport
\* acquired at construction has been closed, those of the failing session and
\* of the sessions never started included.
C9_FailedStartReleasesEveryTransport ==
    (\E k \in Hosts : StartFailedAt(k)) =>
        \A i \in 1..build.n : sess[i].tr = "closed"

\* The dispatch goroutine of the k-th Start has returned from its c.Close()
\* and ended.
DispatchExited(k) == dsp[k].pc = "close" /\ cls[k].pc = "ret"

\* C3: once the context passed to Start has been cancelled while Start was
\* blocked, with a session running, Start eventually returns nil, whatever the
\* sessions' close operations report.
C3_CancelledStartReturnsNil ==
    (/\ caller.cancelAt = "running"
     /\ caller.pc = "wait"
     /\ \E i \in Hosts : sess[i].cmd = "running")
        ~> StartReturnedNil

\* C4: once the context has been cancelled after Start's start phase
\* succeeded (Start is blocked in its wait), the dispatch goroutine eventually has called Close, every started session is
\* closed, and the goroutine has ended.
C4_CancelledDispatchClosesAndExits ==
    (caller.cancelAt = "running" /\ caller.pc = "wait" /\ dsp[1].pc # "none")
        ~> (DispatchExited(1) /\ \A i \in 1..build.n : Started(i) => Released(i))

\* C5: when session k fails to start, Start eventually returns that session's
\* error with sessions 1..k-1 closed and no session task for k+1..N.
C5_FailedStartClosesEarlierSessions ==
    \A k \in Hosts :
       (caller.pc = "failclose" /\ caller.err = k)
           ~> (/\ StartFailedAt(k)
               /\ \A i \in 1..(k - 1) : Released(i)
               /\ \A i \in (k + 1)..build.n : gor[i].pc = "none")

\* C6: a second Start on the same writer returns an error, and no session
\* task and no dispatch task exists beyond those of the first Start.
C6_SecondStartIsRejected ==
    /\ \A j \in 1..Len(caller.hist), j0 \in 1..Len(caller.hist) :
          (j0 < j /\ caller.hist[j0].op = "Start" /\ caller.hist[j].op = "Start")
              => caller.hist[j].err # "nil"
    /\ \A d \in StartIds : d > 1 => dsp[d].pc = "none"
    /\ \A i \in Hosts : gor[i].wg <= 1

\* C2: no output adapter executes its send on the shared channel after the
\* writer has closed the channel.
C2_NoSendOnClosedChannel == panicked # "send on closed channel"

\* C10: no task executes close on the shared channel after the channel has
\* been closed.
C10_ChannelClosedAtMostOnce == panicked # "close of closed channel"

\* The caller is inside a Close that directly follows a Close it completed.
InSecondClose ==
    /\ caller.pc = "close"
    /\ caller.hist # <<>>
    /\ caller.hist[Len(caller.hist)].op = "Close"

\* C7: the steps of a second Close change no session, sink, channel or flag
\* of the writer.
C7_SecondCloseChangesNothing ==
    [][(InSecondClose /\ cls'[Caller] # cls[Caller])
          => (sess' = sess /\ w' = w /\ chans' = chans /\ wgCount' = wgCount)]_vars

\* The goroutine steps of the client generation.
StepsClient ==
    \/ Client_Start_Call
    \/ Client_Start_Loop
    \/ Client_Start_Spawn
    \/ Writer_Start_Fail
    \/ Writer_Close_Call
    \/ Writer_Close_Return
    \/ \E i \in Hosts : Write_Send(i)
    \/ \E t \in Tasks : Client_Close_Loop(t)
    \/ \E t \in Tasks : Client_Close_Session(t)
    \/ \E t \in Tasks : Client_Close_Chan(t)
    \/ \E t \in Tasks : Client_Close_Nil(t)
    \/ \E d \in StartIds : Dispatch_Select(d)
    \/ \E d \in StartIds : Dispatch_Recv(d)
    \/ \E d \in StartIds : Dispatch_Write(d)
    \/ \E d \in StartIds : Dispatch_ChanClosed(d)
    \/ \E d \in StartIds : Dispatch_Cancel(d)

\* The client generation under the Go scheduler: every goroutine that can
\* take a step eventually takes one.
FairClient == SpecClient /\ WF_vars(StepsClient)

\* C11: once Close has closed the channel of a dispatch goroutine, and unless
\* the context is cancelled, the goroutine eventually has taken every queued
\* line out of the channel, written it, and ended.
C11_ClosedChannelIsDrained ==
    \A k \in StartIds :
       (chans[k].closed /\ dsp[k].pc # "none" /\ ~ctxDone)
           ~> (ctxDone \/ (chans[k].q = <<>> /\ DispatchExited(k)))

\* C12: every line on the primary sink is the tag of a session, then " | ",
\* then the bytes of one write that this very session's adapter received.
C12_LineIsTagBarBytes ==
    \A j \in 1..Len(out) :
       \E i \in 1..build.n : \E n \in 1..prod[i].n :
          out[j] = <<i, " | ", <<i, n>>>>

\* The session generation used as a library with output files: the caller
\* registers files, then calls Start; the context may be cancelled.
NextSinks ==
    \/ NewConsolidatedWriter
    \/ AddOutputFile
    \/ StepsRun
    \/ \E i \in Hosts : Remote_Exit(i)
    \/ \E i \in Hosts : Write_Format(i)
    \/ Cancel

InitSinks ==
    InitWith({"session"},
             {sc \in Scripts({"Add", "Start"}, MaxCalls) :
                sc # <<>> /\ sc[Len(sc)] = "Start"
                /\ \A j \in 1..(Len(sc) - 1) : sc[j] = "Add"})

SpecSinks == InitSinks /\ [][NextSinks]_vars

\* C13: whatever the writes to the output files return, a dispatch write step
\* puts the line on the primary sink, hands it to every registered output
\* file (each file either takes it or fails on its own), leaves the writer
\* open and the process alive, and returns the goroutine to its select.
C13_FileFailureIsIsolated ==
    [][\A d \in StartIds :
          (dsp[d].pc = "write" /\ dsp'[d] # dsp[d]) =>
             /\ out' = Append(out, dsp[d].line)
             /\ Len(w'.files) = Len(w.files)
             /\ \A j \in 1..Len(w.files) :
                   /\ w'.files[j].writes = w.files[j].writes + 1
                   /\ \/ w'.files[j].data = w.files[j].data
                      \/ w'.files[j].data = Append(w.files[j].data, dsp[d].line)
             /\ dsp'[d].pc = "select"
             /\ w'.closed = w.closed
             /\ cls' = cls
             /\ panicked' = "none"]_vars

\* Two lines were dispatched; the first open file failed on the first line
\* and still received the second, the second file received both.
C13_Witness ==
    /\ Len(w.files) = 2
    /\ Len(out) = 2
    /\ w.files[1].open
    /\ w.files[1].writes = 2
    /\ w.files[1].data = <<out[2]>>
    /\ w.files[2].data = out

\* The session generation with remote commands that write more than once:
\* one or two Start calls, cancellation.
NextOrder ==
    \/ NewConsolidatedWriter
    \/ StepsRun
    \/ \E i \in Hosts : Remote_Exit(i)
    \/ \E i \in Hosts : Write_Format(i)
    \/ Cancel

InitOrder == InitLines({"session"}, Scripts({"Start"}, MaxRunCalls) \ {<<>>}, MaxOrderLines)

SpecOrder == InitOrder /\ [][NextOrder]_vars

\* C14: two lines of the same session stand on the primary sink in the order
\* in which the session's adapter received them.
C14_SessionOrderIsKept ==
    \A j1 \in 1..Len(out), j2 \in 1..Len(out) :
       (j1 < j2 /\ out[j1][1] = out[j2][1]) => out[j1][3][2] < out[j2][3][2]

\* C15: a session on which TailSession.Close has run its closes and from
\* which every caller of that Close has returned is marked closed, whatever
\* the closes reported.
C15_SessionCloseAlwaysMarksClosed ==
    \A i \in 1..build.n :
       (sess[i].hCloses > 0 /\ \A t \in Tasks : ~(cls[t].pc = "mark" /\ cls[t].i = i))
           => Closed(i)

\* Session i has been closed: marked closed, or for a TailSshClient (which
\* has no such mark) its transport closed.
SessionClosed(i) ==
    IF variant = "client" THEN sess[i].tr = "closed" ELSE Closed(i)

\* Task t is about to execute a session's Close from its first statement:
\* TailSshClient.Close is one step of its own; TailSession.Close begins with
\* the closed test that the step of the writer's loop contains.
SessionCloseBegins(t) ==
    IF variant = "client" THEN cls[t].pc = "tsclose"
    ELSE cls[t].pc = "loop" /\ cls[t].i <= build.n

\* C16: a session Close that begins on an already closed session closes no
\* remote-execution handle and no transport and leaves the barrier as it is.
C16_ClosedSessionIsNotClosedAgain ==
    [][\A t \in Tasks :
          (SessionCloseBegins(t) /\ cls'[t] # cls[t] /\ SessionClosed(cls[t].i))
             => (sess' = sess /\ wgCount' = wgCount)]_vars

\* ------------------------------------------------- the session API, direct
\* The sessions are exported types: a caller can invoke their Start and Close
\* itself. Below, the caller does so on session 1, handing Start the channel
\* of the writer and one WaitGroup of its own (barrier 1).

\* The guards at the top of a session's Start: TailSession.Start of
\* pkg/sshtail and TailSshClient.StartSession test the session pointer only,
\* TailSession.start of pkg/specfile tests s.closed, then s.started.
SessionStartGuard(i) ==
    IF variant = "legacy"
    THEN IF sess[i].closed THEN "closed"
         ELSE IF sess[i].started THEN "already started"
         ELSE "none"
    ELSE IF sess[i].ptr THEN "already started" ELSE "none"

\* TailSession.Start / TailSession.start, whole method.
Direct_TailSession_Start ==
    /\ Alive
    /\ variant \in {"session", "legacy"}
    /\ NextCall("SessStart")
    /\ IF SessionStartGuard(1) # "none"
       THEN /\ caller' = Returned("SessStart", SessionStartGuard(1), 1)
            /\ UNCHANGED <<sess, gor>>
       ELSE \E ok \in NewSessionOutcomes(1) :
              /\ TailSession_Start(1, 1, ok)
              /\ caller' = Returned("SessStart", IF ok THEN "nil" ELSE "session", 1)
    /\ UNCHANGED <<specData, wait, variant, build, prod, wgCount, chans, w, out, ctxDone,
                   panicked, cls, dsp, sig>>

\* TailSshClient.StartSession, whole method.
Direct_Client_StartSession ==
    /\ Alive
    /\ variant = "client"
    /\ NextCall("SessStart")
    /\ build.n >= 1
    /\ IF SessionStartGuard(1) # "none"
       THEN /\ caller' = Returned("SessStart", SessionStartGuard(1), 1)
            /\ UNCHANGED sess
       ELSE \E res \in StartSessionOutcomes(1) :
              /\ TailSshClient_StartSession(1, res)
              /\ caller' = Returned("SessStart", IF res = "ok" THEN "nil" ELSE res, 1)
    /\ UNCHANGED <<specData, wait, variant, build, gor, prod, wgCount, chans, w, out, ctxDone,
                   panicked, cls, dsp, sig>>

\* TailSession.Close of pkg/sshtail, whole method: nothing on a closed
\* session; s.session.Close() on a nil session pointer panics; a failed close
\* returns the error before the mark; otherwise the mark and s.wg.Done().
Direct_TailSession_Close ==
    /\ Alive
    /\ variant = "session"
    /\ NextCall("SessClose")
    /\ IF sess[1].closed
       THEN /\ caller' = Returned("SessClose", "nil", 1)
            /\ UNCHANGED <<sess, wgCount, panicked>>
       ELSE IF ~sess[1].ptr
       THEN /\ panicked' = "nil pointer dereference"
            /\ UNCHANGED <<sess, wgCount, caller>>
       ELSE \E e1 \in BOOLEAN, e2 \in BOOLEAN :
              IF e1 \/ e2
              THEN /\ sess' = [sess EXCEPT ![1] = ReleaseSession(@)]
                   /\ caller' = Returned("SessClose", "close", 1)
                   /\ UNCHANGED <<wgCount, panicked>>
              ELSE /\ sess' = [sess EXCEPT ![1] = [ReleaseSession(@) EXCEPT !.closed = TRUE]]
                   /\ panicked' = WgDonePanic(1)
                   /\ wgCount' = IF WgDonePanic(1) = "none"
                                 THEN [wgCount EXCEPT ![sess[1].wg] = @ - 1] ELSE wgCount
                   /\ caller' = IF WgDonePanic(1) = "none"
                                THEN Returned("SessClose", "nil", 1) ELSE caller
    /\ UNCHANGED <<specData, wait, variant, build, gor, prod, chans, w, out, ctxDone, cls, dsp, sig>>

\* TailSession.Close of pkg/specfile, whole method: nothing on a closed
\* session; otherwise the mark first, then the closes (a nil session pointer
\* panics), then s.wg.Done() whatever the closes returned.
Direct_Legacy_Close ==
    /\ Alive
    /\ variant = "legacy"
    /\ NextCall("SessClose")
    /\ IF sess[1].closed
       THEN /\ caller' = Returned("SessClose", "nil", 1)
            /\ UNCHANGED <<sess, wgCount, panicked>>
       ELSE IF ~sess[1].ptr
       THEN /\ sess' = [sess EXCEPT ![1].closed = TRUE]
            /\ panicked' = "nil pointer dereference"
            /\ UNCHANGED <<wgCount, caller>>
       ELSE \E e1 \in BOOLEAN, e2 \in BOOLEAN :
              /\ sess' = [sess EXCEPT ![1] = [ReleaseSession(@) EXCEPT !.closed = TRUE]]
              /\ panicked' = WgDonePanic(1)
              /\ wgCount' = IF WgDonePanic(1) = "none"
                            THEN [wgCount EXCEPT ![sess[1].wg] = @ - 1] ELSE wgCount
              /\ caller' = IF WgDonePanic(1) # "none" THEN caller
                           ELSE Returned("SessClose",
                                         IF e1 \/ e2 THEN "close" ELSE "nil", 1)
    /\ UNCHANGED <<specData, wait, variant, build, gor, prod, chans, w, out, ctxDone, cls, dsp, sig>>

\* TailSshClient.Close, whole method; client.Close() fails on a transport
\* that is already closed and may fail on an open one.
Direct_Client_Close ==
    /\ Alive
    /\ variant = "client"
    /\ NextCall("SessClose")
    /\ build.n >= 1
    /\ sess' = [sess EXCEPT ![1] = TailSshClient_Close(@)]
    /\ \E e \in IF sess[1].tr = "closed" THEN {TRUE} ELSE BOOLEAN :
         caller' = Returned("SessClose", IF e THEN "close" ELSE "nil", 1)
    /\ UNCHANGED <<specData, wait, variant, build, gor, prod, wgCount, chans, w, out, ctxDone,
                   panicked, cls, dsp, sig>>

\* The session API on its own, in every generation.
NextApi ==
    \/ NewConsolidatedWriter
    \/ Client_NewConsolidatedWriter
    \/ Legacy_NewConsolidatedWriter
    \/ Direct_TailSession_Start
    \/ Direct_Client_StartSession
    \/ Direct_TailSession_Close
    \/ Direct_Legacy_Close
    \/ Direct_Client_Close
    \/ \E i \in Hosts : Session_Go_Add(i)
    \/ \E i \in Hosts : Session_Go_Run(i)
    \/ \E i \in Hosts : Remote_Exit(i)

InitApi ==
    InitWith({"session", "client", "legacy"},
             Scripts({"SessStart", "SessClose"}, MaxCalls) \ {<<>>})

SpecApi == InitApi /\ [][NextApi]_vars

\* The caller's next call is op and, when it is made, session 1 is in the
\* state the call will find.
AboutToCall(op) == NextCall(op) /\ build.n >= 1

\* The call just made returned err.
JustReturned(err) ==
    /\ Len(caller'.hist) = Len(caller.hist) + 1
    /\ caller'.hist[Len(caller'.hist)].err = err

\* C17: a session Start called on an already closed session returns the
\* closed error, called on a started and not closed session it returns the
\* already-started error, and in both cases it opens no remote-execution
\* handle and launches no remote command.
C17_StartOnStartedOrClosedFails ==
    [][(AboutToCall("SessStart") /\ caller' # caller
          /\ (SessionClosed(1) \/ sess[1].ptr \/ sess[1].started))
          => /\ JustReturned(IF SessionClosed(1) THEN "closed" ELSE "already started")
             /\ sess' = sess
             /\ gor' = gor]_vars

\* What a caller that consults the session's own methods is told: the
\* writer's Start loop starts session i when Started() answers false; the
\* TailSession types also have Closed(), TailSshClient has not.
Startable(i) ==
    /\ ~Started(i)
    /\ variant # "client" => ~Closed(i)

\* C18: over any sequence of Start and Close operations each session
\* launches its remote command at most once, a closed session never
\* launches a command again, and a closed session never reports itself as
\* startable.
C18_SessionStartsOnceAndNeverAfterClose ==
    [][\A i \in Hosts :
          /\ sess'[i].launches <= 1
          /\ SessionClosed(i) => sess'[i].launches = sess[i].launches
          /\ SessionClosed(i)' => ~Startable(i)']_vars

\* C19: a construction from a spec with zero hosts has failed, and it has
\* loaded no key and dialed no host.
C19_ZeroHostsFailsBeforeAnyDial ==
    (build.phase # "new" /\ build.n = 0)
       => /\ build.phase = "failed"
          /\ build.keyLoads = 0
          /\ build.dials = 0

\* Task t's call of ConsolidatedWriter.Close returns in this step; the only
\* value Close returns is nil.
WriterCloseReturns(t) == cls[t].pc # "ret" /\ cls'[t].pc = "ret"

\* C20: when ConsolidatedWriter.Close returns, every session that has been
\* started has its remote-execution handle and transport closed, every
\* output file is closed and the writer is marked closed, whatever the
\* sessions' own Close calls reported.
C20_WriterCloseClosesEverything ==
    [][\A t \in Tasks :
          WriterCloseReturns(t) =>
             /\ \A i \in Hosts : Started(i)' => Released(i)'
             /\ \A j \in 1..Len(w'.files) : ~w'.files[j].open
             /\ w'.closed]_vars

\* The caller's next call is AddOutputFile.
AboutToCallAdd == NextCall("Add")

\* The record of a file as AddOutputFile registers it.
NewFile == [open |-> TRUE, data |-> <<>>, closes |-> 0, writes |-> 0]

\* C21: a call of AddOutputFile either returns nil and has appended the file
\* at the end of the output file list, or returns the Stat error and has left
\* the list as it was; in both cases no other field of the writer and no
\* session changes.
C21_AddOutputFileAppendsOrFails ==
    [][(AboutToCallAdd /\ Len(caller'.hist) > Len(caller.hist)) =>
          /\ \/ JustReturned("nil") /\ w'.files = Append(w.files, NewFile)
             \/ JustReturned("stat") /\ w'.files = w.files
          /\ w'.ch = w.ch /\ w'.closed = w.closed
          /\ UNCHANGED <<sess, chans, out, dsp, cls, wgCount>>]_vars

\* One AddOutputFile call failed and one succeeded: exactly the file of the
\* successful call is registered.
C21_Witness ==
    /\ \E j \in 1..Len(caller.hist) :
         caller.hist[j].op = "Add" /\ caller.hist[j].err = "stat"
    /\ \E j \in 1..Len(caller.hist) :
         caller.hist[j].op = "Add" /\ caller.hist[j].err = "nil"
    /\ Len(w.files) = 1

\* Something other than a remote command's end has asked for closure: the
\* context was cancelled, a signal goroutine was woken, the caller called
\* Close, or a session could not be started in Start's loop.
ClosureRequested ==
    \/ ctxDone
    \/ \E k \in StartIds : sig[k] \notin {"none", "armed"}
    \/ caller.pc \in {"close", "failclose"}
    \/ \E j \in 1..Len(caller.hist) :
         \/ caller.hist[j].op = "Close"
         \/ caller.hist[j].op = "Start" /\ caller.hist[j].err # "nil"

\* Neither the writer nor any session is closed or being closed.
NothingClosed ==
    /\ ~w.closed
    /\ \A t \in Tasks : cls[t].pc = "idle"
    /\ \A i \in Hosts : /\ sess[i].handle # "closed"
                        /\ sess[i].tr # "closed"
                        /\ ~Closed(i)

\* C22: the end of a remote command is never acted on. Nothing is closed
\* unless closure was requested by something else, and a Start that returned
\* an error names a session that was never started, whose command was
\* therefore never issued.
C22_RemoteExitIsNotReported ==
    /\ ~ClosureRequested => NothingClosed
    /\ \A j \in 1..Len(caller.hist) :
         (caller.hist[j].op = "Start" /\ caller.hist[j].err # "nil")
            => ~sess[caller.hist[j].at].ptr

\* A remote command has ended on its own while Start is blocked in Wait, and
\* nothing has asked for closure.
C22_Witness ==
    /\ \E i \in Hosts : sess[i].cmd = "exited" /\ sess[i].handle = "open"
    /\ caller.pc = "wait"
    /\ ~ClosureRequested

\* ------------------------------------------------- the run command alone
\* cmd/run.go, the signal arriving while Start is blocked in wg.Wait.
Signal_WhileBlocked ==
    /\ caller.pc = "wait"
    /\ Signal_Close(1)

\* cmd/run.go: defer cancel() runs when RunE returns, that is after
\* writer.Start has returned; nothing else in the command cancels the context.
Run_DeferredCancel ==
    /\ Alive
    /\ variant = "session"
    /\ caller.pc = "idle"
    /\ caller.script = <<>>
    /\ caller.hist # <<>>
    /\ ~ctxDone
    /\ ctxDone' = TRUE
    /\ UNCHANGED <<specData, wait, variant, build, sess, gor, prod, wgCount, chans, w, out,
                   panicked, caller, cls, dsp, sig>>

StepsCli ==
    \/ StepsRun
    \/ Run_DeferredCancel

NextCli ==
    \/ NewConsolidatedWriter
    \/ Signal_Arm
    \/ StepsCli
    \/ \E i \in Hosts : Remote_Exit(i)
    \/ \E i \in Hosts : Write_Format(i)
    \/ Signal_WhileBlocked

InitCli == InitWith({"session"}, {<<"Start">>})

SpecCli == InitCli /\ [][NextCli]_vars

FairCli == SpecCli /\ WF_vars(StepsCli)

\* C23: once the run command has received a signal while Start is blocked,
\* the context passed to Start gets cancelled and Start returns nil.
C23_SignalCancelsAndRunReturns ==
    (sig[1] = "closing") ~> (ctxDone /\ StartReturnedNil)

\* C24: whatever tasks run writer Close concurrently, the remote-execution
\* handle and the transport of each session are closed at most once, and the
\* session's mark-and-Done never runs a second time (which would show as a
\* negative barrier counter).
C24_SessionReleasedExactlyOnce ==
    /\ \A i \in Hosts : sess[i].hCloses <= 1 /\ sess[i].tCloses <= 1
    /\ panicked # "sync: negative WaitGroup counter"

\* Channel k is closed in this step.
ChannelCloses(k) == ~chans[k].closed /\ chans'[k].closed

\* C25: the shared channel is closed only by a task at the close(c.ch) of
\* writer Close, never by a producer, and at that moment no session is
\* started and not yet closed.
C25_ChannelClosedByWriterAfterSessions ==
    [][\A k \in StartIds :
          ChannelCloses(k) =>
             /\ \E t \in Tasks : cls[t].pc = "loop" /\ cls'[t].pc = "nil"
             /\ prod' = prod
             /\ \A i \in Hosts : ~Client_Started(i)]_vars

\* The dispatch goroutine spawned by the d-th Start exists and has not
\* returned.
DispatchLive(d) == dsp[d].pc # "none" /\ ~DispatchExited(d)

\* C26: at most one dispatch goroutine of the writer is live.
C26_AtMostOneDispatch ==
    Cardinality({d \in StartIds : DispatchLive(d)}) <= 1

\* ------------------------------------- the dispatch loop, write by write
\* The body of case line, ok := <-c.ch statement by statement, in place of
\* the single step Dispatch_Write.

\* _, _ = c.out.Write([]byte(line)); then the range loop over c.outputFiles
\* begins at its first element.
Dispatch_WriteOut(d) ==
    /\ Alive
    /\ dsp[d].pc = "write"
    /\ out' = Append(out, dsp[d].line)
    /\ dsp' = [dsp EXCEPT ![d] = [pc |-> "files", line |-> dsp[d].line,
                                  ch |-> dsp[d].ch, j |-> 1]]
    /\ UNCHANGED <<specData, wait, variant, build, sess, gor, prod, wgCount, chans, w, ctxDone,
                   panicked, caller, cls, sig>>

\* A range loop that would visit the output files last to first.
Dispatch_WriteFile_Reversed(d) ==
    /\ Alive
    /\ dsp[d].pc = "files"
    /\ dsp[d].j <= Len(w.files)
    /\ LET j == Len(w.files) + 1 - dsp[d].j IN
       \E ok \in BOOLEAN :
          w' = [w EXCEPT !.files[j] = WriteFile(@, dsp[d].line, ok)]
    /\ dsp' = [dsp EXCEPT ![d].j = @ + 1]
    /\ UNCHANGED <<specData, wait, variant, build, sess, gor, prod, wgCount, chans, out, ctxDone,
                   panicked, caller, cls, sig>>

\* One iteration of for _, o := range c.outputFiles: o.WriteString(line) on
\* the j-th registered file.
Dispatch_WriteFile(d) ==
    /\ Alive
    /\ dsp[d].pc = "files"
    /\ dsp[d].j <= Len(w.files)
    /\ LET j == dsp[d].j IN
       \E ok \in BOOLEAN :
          w' = [w EXCEPT !.files[j] = WriteFile(@, dsp[d].line, ok)]
    /\ dsp' = [dsp EXCEPT ![d].j = @ + 1]
    /\ UNCHANGED <<specData, wait, variant, build, sess, gor, prod, wgCount, chans, out, ctxDone,
                   panicked, caller, cls, sig>>

\* The range loop is over: back to the select.
Dispatch_NextLine(d) ==
    /\ Alive
    /\ dsp[d].pc = "files"
    /\ dsp[d].j > Len(w.files)
    /\ dsp' = [dsp EXCEPT ![d] = AtSelect]
    /\ UNCHANGED <<specData, wait, variant, build, sess, gor, prod, wgCount, chans, w, out,
                   ctxDone, panicked, caller, cls, sig>>

NextWrites ==
    \/ NewConsolidatedWriter
    \/ AddOutputFile
    \/ Writer_Start_Call
    \/ Writer_Start_Loop
    \/ Writer_Start_Fail
    \/ Writer_Start_Spawn
    \/ Writer_Start_Wait
    \/ \E i \in Hosts : Session_Go_Add(i)
    \/ \E i \in Hosts : Session_Go_Run(i)
    \/ \E i \in Hosts : Remote_Exit(i)
    \/ \E i \in Hosts : Write_Format(i)
    \/ \E i \in Hosts : Write_Send(i)
    \/ \E t \in Tasks : Writer_Close_Loop(t)
    \/ \E t \in Tasks : TailSession_Close_Mark(t)
    \/ \E t \in Tasks : Writer_Close_Fin(t)
    \/ \E d \in StartIds : Dispatch_Recv(d)
    \/ \E d \in StartIds : Dispatch_WriteOut(d)
    \/ \E d \in StartIds : Dispatch_WriteFile(d)
    \/ \E d \in StartIds : Dispatch_NextLine(d)
    \/ \E d \in StartIds : Dispatch_Cancel(d)
    \/ Cancel

InitWrites == InitSinks

SpecWrites == InitWrites /\ [][NextWrites]_vars

\* Dispatch goroutine d dequeues a line in this step.
Dequeues(d) == dsp[d].pc = "select" /\ dsp'[d].pc = "write"

\* Output file j is written to in this step.
FileWritten(j) == w'.files[j].writes # w.files[j].writes

\* C27: the dispatch goroutine writes a dequeued line unchanged to the
\* primary sink before any output file; it hands the line to the output
\* files one at a time in registration order, each file receiving it
\* unchanged or not at all; and it dequeues the next line only when every
\* file has been handed every line written to the primary sink so far.
C27_WritesInOrderBeforeNextDequeue ==
    [][\A d \in StartIds :
          /\ (dsp[d].pc = "write" /\ dsp'[d] # dsp[d]) =>
                /\ out' = Append(out, dsp[d].line)
                /\ w' = w
          /\ (dsp[d].pc = "files" /\ w' # w) =>
                /\ out' = out /\ out # <<>> /\ out[Len(out)] = dsp[d].line
                /\ Len(w'.files) = Len(w.files)
                /\ \A j \in 1..Len(w.files) :
                      IF FileWritten(j)
                      THEN /\ w'.files[j].writes = Len(out)
                           /\ w'.files[j].data \in
                                 {w.files[j].data, Append(w.files[j].data, dsp[d].line)}
                           /\ \A h \in 1..(j - 1) : w.files[h].writes = Len(out)
                           /\ \A h \in (j + 1)..Len(w.files) :
                                 w.files[h].writes = Len(out) - 1
                      ELSE w'.files[j] = w.files[j]
          /\ Dequeues(d) =>
                \A j \in 1..Len(w.files) : w.files[j].writes = Len(out)]_vars

\* Two lines have gone through the loop with two output files registered:
\* both files were handed both lines, and the second file took both.
C27_Witness ==
    /\ Len(w.files) = 2
    /\ Len(out) = 2
    /\ \A j \in 1..2 : w.files[j].writes = 2
    /\ w.files[2].data = out
    /\ \E d \in StartIds : dsp[d].pc = "select"

\* --------------------------------- a session's Close, statement by statement
\* TailSession.Close (pkg/sshtail) and TailSshClient.Close called by the
\* caller on session 1, one library call per step. cls[Caller].i keeps
\* whether the session was started when Close was called; the pc after the
\* handle's close keeps what that close returned.

\* Close is entered: TailSession.Close returns nil on a closed session;
\* TailSshClient.Close skips the session part when c.session == nil.
SessionClose_Call ==
    /\ Alive
    /\ variant \in {"session", "client"}
    /\ NextCall("SessClose")
    /\ build.n >= 1
    /\ IF variant = "session" /\ sess[1].closed
       THEN /\ caller' = Returned("SessClose", "nil", 1)
            /\ cls' = cls
       ELSE /\ caller' = [caller EXCEPT !.pc = "sclose"]
            /\ cls' = [cls EXCEPT ![Caller] =
                          [pc |-> IF variant = "client"
                                  THEN IF sess[1].ptr THEN "sig" ELSE "tr"
                                  ELSE "handle",
                           i |-> IF sess[1].ptr THEN 1 ELSE 0]]
    /\ UNCHANGED <<specData, wait, variant, build, sess, gor, prod, wgCount, chans, w, out,
                   ctxDone, panicked, dsp, sig>>

\* TailSshClient.Close: _ = c.session.Signal(ssh.SIGINT).
SessionClose_Signal ==
    /\ Alive
    /\ caller.pc = "sclose"
    /\ cls[Caller].pc = "sig"
    /\ sess' = [sess EXCEPT ![1].ints = @ + 1]
    /\ cls' = [cls EXCEPT ![Caller].pc = "handle"]
    /\ UNCHANGED <<specData, wait, variant, build, gor, prod, wgCount, chans, w, out, ctxDone,
                   panicked, caller, dsp, sig>>

\* e1 := s.session.Close() (a nil s.session panics); TailSshClient.Close
\* drops the result and sets c.session = nil.
SessionClose_Handle ==
    /\ Alive
    /\ caller.pc = "sclose"
    /\ cls[Caller].pc = "handle"
    /\ IF ~sess[1].ptr
       THEN /\ panicked' = "nil pointer dereference"
            /\ UNCHANGED <<sess, cls>>
       ELSE /\ \E e1 \in BOOLEAN :
                 cls' = [cls EXCEPT ![Caller].pc = IF e1 THEN "tr_e1" ELSE "tr"]
            /\ sess' = [sess EXCEPT ![1].handle = "closed", ![1].hCloses = @ + 1,
                                    ![1].cmd = IF @ = "running" THEN "exited" ELSE @,
                                    ![1].ptr = (variant # "client")]
            /\ panicked' = panicked
    /\ UNCHANGED <<specData, wait, variant, build, gor, prod, wgCount, chans, w, out, ctxDone,
                   caller, dsp, sig>>

\* The error TailSession.Close builds from e1 and e2: the two messages
\* written to one strings.Builder, nil when both are nil.
TailSession_Close_Error(e1, e2) ==
    IF e1 /\ e2 THEN "e1e2" ELSE IF e1 THEN "e1" ELSE IF e2 THEN "e2" ELSE "nil"

\* The error TailSshClient.Close returns: that of c.client.Close() alone.
TailSshClient_Close_Error(e1, e2) == IF e2 THEN "e2" ELSE "nil"

\* e2 := client.Close() (it fails on a closed transport) and the rest of the
\* method: TailSshClient.Close returns; TailSession.Close returns the
\* combined error, or marks the session closed, calls s.wg.Done() and
\* returns nil.
SessionClose_Transport ==
    /\ Alive
    /\ caller.pc = "sclose"
    /\ cls[Caller].pc \in {"tr", "tr_e1"}
    /\ LET e1 == cls[Caller].pc = "tr_e1" IN
       \E e2 \in IF sess[1].tr = "closed" THEN {TRUE} ELSE BOOLEAN :
          LET err == IF variant = "client" THEN TailSshClient_Close_Error(e1, e2)
                     ELSE TailSession_Close_Error(e1, e2)
              done == variant = "session" /\ err = "nil"
              bad == IF done THEN WgDonePanic(1) ELSE "none"
          IN  /\ sess' = [sess EXCEPT ![1].tr = "closed", ![1].tCloses = @ + 1,
                                      ![1].closed = IF done THEN TRUE ELSE @]
              /\ panicked' = bad
              /\ wgCount' = IF done /\ bad = "none"
                            THEN [wgCount EXCEPT ![sess[1].wg] = @ - 1] ELSE wgCount
              /\ caller' = IF bad = "none" THEN Returned("SessClose", err, 1)
                           ELSE caller
              /\ cls' = IF bad = "none" THEN [cls EXCEPT ![Caller] = [pc |-> "idle", i |-> 0]]
                        ELSE cls
    /\ UNCHANGED <<specData, wait, variant, build, gor, prod, chans, w, out, ctxDone, dsp, sig>>

NextClose ==
    \/ NewConsolidatedWriter
    \/ Client_NewConsolidatedWriter
    \/ Direct_TailSession_Start
    \/ Direct_Client_StartSession
    \/ SessionClose_Call
    \/ SessionClose_Signal
    \/ SessionClose_Handle
    \/ SessionClose_Transport
    \/ \E i \in Hosts : Session_Go_Add(i)
    \/ \E i \in Hosts : Session_Go_Run(i)
    \/ \E i \in Hosts : Remote_Exit(i)

InitClose ==
    InitWith({"session", "client"},
             Scripts({"SessStart", "SessClose"}, MaxCalls) \ {<<>>})

SpecClose == InitClose /\ [][NextClose]_vars

\* The caller is inside a session Close that it called on a started session.
InCloseOfStarted == caller.pc = "sclose" /\ cls[Caller].i = 1

\* C28: a Close called on a started, not yet closed session sends the
\* interrupt before it closes the remote-execution handle, closes the handle
\* before the transport, and returns an error that carries the error of the
\* handle's close and the error of the transport's close.
C28_SessionCloseOrderAndCombinedError ==
    [][InCloseOfStarted =>
          /\ sess'[1].hCloses > sess[1].hCloses =>
                /\ sess[1].ints >= sess'[1].hCloses
                /\ sess[1].tCloses < sess'[1].hCloses
          /\ sess'[1].tCloses > sess[1].tCloses =>
                sess[1].hCloses >= sess'[1].tCloses
          /\ Len(caller'.hist) > Len(caller.hist) =>
                \E e2 \in BOOLEAN :
                   JustReturned(TailSession_Close_Error(cls[Caller].pc = "tr_e1", e2))]_vars

\* C29: no Close calls Done through a barrier reference that the session
\* goroutine has not set yet, and no Done finds the barrier counter at zero.
C29_BarrierUsedConsistently ==
    panicked \notin {"nil pointer dereference", "sync: negative WaitGroup counter"}

\* ------------------------------------- the run command, signal at startup
\* cmd/run.go, the signal arriving while Start is in its loop over the
\* sessions.
Signal_DuringStartup ==
    /\ caller.pc = "loop"
    /\ Signal_Close(1)

NextStartup ==
    \/ NewConsolidatedWriter
    \/ Signal_Arm
    \/ StepsCli
    \/ \E i \in Hosts : Remote_Exit(i)
    \/ \E i \in Hosts : Write_Format(i)
    \/ Signal_DuringStartup

InitStartup == InitWith({"session"}, {<<"Start">>})

SpecStartup == InitStartup /\ [][NextStartup]_vars

FairStartup == SpecStartup /\ WF_vars(StepsCli)

\* Start has returned to the caller, with nil or with an error.
StartReturned ==
    \E j \in 1..Len(caller.hist) : caller.hist[j].op = "Start"

\* C30: once writer Close has been called while Start was in its loop over
\* the sessions, Start eventually has returned with every session it started
\* closed: remote-execution handle and transport released.
C30_StartupCloseLeavesNothingRunning ==
    (sig[1] = "closing") ~>
        (StartReturned /\ \A i \in Hosts : Started(i) => Released(i))

\* Every session of the writer has launched its remote command and the
\* command has ended by itself: the session's handle is still open.
AllCommandsExited ==
    /\ build.phase = "ready"
    /\ build.n >= 1
    /\ \A i \in 1..build.n : sess[i].cmd = "exited" /\ sess[i].handle = "open"

\* C31: when every remote command has ended by itself and nothing has called
\* Close or cancelled the context, Start has not returned, no session is
\* closed and the barrier still counts every session goroutine that has
\* registered: none has called Done.
C31_RemoteExitNeverCompletesStart ==
    (AllCommandsExited /\ ~ClosureRequested) =>
        /\ ~StartReturned
        /\ NothingClosed
        /\ caller.wg # 0 =>
              wgCount[caller.wg] = Cardinality({i \in Hosts : gor[i].pc \in {"added", "run"}})

\* The line the adapter of session i makes of its n-th chunk.
LineOf(i, n) == FormatLine(i, <<i, n>>)

\* Line l stands in the buffer of some channel.
Queued(l) ==
    \E k \in StartIds : \E j \in 1..Len(chans[k].q) : chans[k].q[j] = l

\* How many times line l stands on the primary sink.
TimesWritten(l) == Cardinality({j \in 1..Len(out) : out[j] = l})

\* C32: every line an adapter has enqueued on the shared channel eventually
\* stands on the primary sink, and no line ever stands there twice.
C32_EnqueuedLineIsWrittenOnce ==
    /\ \A i \in Hosts : \A n \in 1..MaxLines :
          Queued(LineOf(i, n)) ~> (TimesWritten(LineOf(i, n)) = 1)
    /\ [](\A i \in Hosts : \A n \in 1..MaxLines : TimesWritten(LineOf(i, n)) <= 1)

\* SpecOrder under the Go scheduler.
FairOrder == SpecOrder /\ WF_vars(StepsRun)

\* The adapter of session i is inside t.ch <- line and the channel's buffer
\* is full.
SendBlocked(i) ==
    /\ prod[i].pc = "send"
    /\ sess[i].och # 0
    /\ ~chans[sess[i].och].closed
    /\ Len(chans[sess[i].och].q) >= ChanCap

\* C33: an adapter that is blocked in its send because the channel is full
\* eventually completes the send.
C33_BlockedSendIsReleased ==
    \A i \in Hosts : SendBlocked(i) ~> (prod[i].pc # "send")

\* The session generation with output files and the signal goroutine of
\* cmd/run.go: files are registered, Start is called, the signal may arrive
\* at any time.
NextSinksSignal ==
    \/ NextSinks
    \/ Signal_Arm
    \/ \E k \in StartIds : Signal_Close(k)

InitSinksSignal == InitSinks

SpecSinksSignal == InitSinksSignal /\ [][NextSinksSignal]_vars

\* C34: a write step of the dispatch goroutine hands its line to no output
\* file that writer Close has closed.
C34_NoWriteToClosedFile ==
    [][\A d \in StartIds :
          (dsp[d].pc = "write" /\ dsp'[d] # dsp[d]) =>
             \A j \in 1..Len(w.files) :
                ~w.files[j].open => w'.files[j].writes = w.files[j].writes]_vars

\* The caller's first call on the writer was Close, and it has returned:
\* every Start of this caller is a Start on a closed writer.
ClosedBeforeAnyStart ==
    caller.hist # <<>> /\ caller.hist[1].op = "Close"

\* C35: on a writer that was closed before Start was ever called, no remote
\* command is launched, no session goroutine and no dispatch goroutine is
\* spawned, and no channel is in use by a session.
C35_ClosedWriterStaysClosed ==
    ClosedBeforeAnyStart =>
        /\ \A i \in Hosts : /\ sess[i].launches = 0
                            /\ sess[i].handle = "none"
                            /\ gor[i].pc = "none"
                            /\ sess[i].och = 0
        /\ \A d \in StartIds : dsp[d].pc = "none"

\* ------------------------------------------------ spec validation (part_002)

\* Hosts of one spec file, and Validate calls made on it.
MaxSpecHosts == 2
MaxValidations == 2

\* const DefaultSshPort int = 22
DefaultSshPort == 22

\* Field values a spec file can carry: blank or set.  A user name is a string,
\* a path is the sequence of its elements.
SpecHostnames == {"", "web1"}
SpecPorts == {0, 2222}
SpecUsernames == {"", "deploy"}
SpecIdentityFiles == {<<>>, <<"keys", "id_ed25519">>}
SpecFiles == {<<>>, <<"var", "log", "syslog">>}

HostSpecs ==
    [Hostname : SpecHostnames, Port : SpecPorts, Username : SpecUsernames,
     IdentityFile : SpecIdentityFiles, File : SpecFiles]

\* What user.Current() answers in this process: an error (and a nil *User), or
\* a user whose Username is a sequence of backslash-separated segments.
OsUsers ==
    {[ok |-> FALSE, Username |-> <<>>, HomeDir |-> ""],
     [ok |-> TRUE, Username |-> <<"alice">>, HomeDir |-> "/home/alice"],
     [ok |-> TRUE, Username |-> <<"CORP", "alice">>, HomeDir |-> ""]}

\* path.Join: the non-empty elements, in order.
PathJoin(elems) == SelectSeq(elems, LAMBDA e : e # "")

\* split := strings.Split(u.Username, "\\"); return split[len(split)-1]
defaultUsername(u) == u.Username[Len(u.Username)]

\* path.Join(u.HomeDir, ".ssh", "id_rsa")
defaultIdentityFile(u) == PathJoin(<<u.HomeDir, ".ssh", "id_rsa">>)

\* HostSpec.Validate without the final check of File.
HostSpec_Validate_NoFileCheck(h, u) ==
    IF h.Hostname = ""
    THEN [host |-> h, result |-> "error", err |-> "cannot have a blank hostname"]
    ELSE LET h1 == IF h.Port = 0 THEN [h EXCEPT !.Port = DefaultSshPort] ELSE h
         IN  IF (h1.Username = "" \/ h1.IdentityFile = <<>>) /\ ~u.ok
             THEN [host |-> h1, result |-> "panic", err |-> "nil pointer dereference"]
             ELSE LET h2 == IF h1.Username = ""
                            THEN [h1 EXCEPT !.Username = defaultUsername(u)]
                            ELSE h1
                      h3 == IF h2.IdentityFile = <<>>
                            THEN [h2 EXCEPT !.IdentityFile = defaultIdentityFile(u)]
                            ELSE h2
                  IN  [host |-> h3, result |-> "nil", err |-> ""]

\* HostSpec.Validate: the checks and the defaults in the order of the code.  A
\* default that needs the current user dereferences the nil *User when
\* user.Current() failed.
HostSpec_Validate(h, u) ==
    IF h.Hostname = ""
    THEN [host |-> h, result |-> "error", err |-> "cannot have a blank hostname"]
    ELSE LET h1 == IF h.Port = 0 THEN [h EXCEPT !.Port = DefaultSshPort] ELSE h
         IN  IF (h1.Username = "" \/ h1.IdentityFile = <<>>) /\ ~u.ok
             THEN [host |-> h1, result |-> "panic", err |-> "nil pointer dereference"]
             ELSE LET h2 == IF h1.Username = ""
                            THEN [h1 EXCEPT !.Username = defaultUsername(u)]
                            ELSE h1
                      h3 == IF h2.IdentityFile = <<>>
                            THEN [h2 EXCEPT !.IdentityFile = defaultIdentityFile(u)]
                            ELSE h2
                  IN  IF h3.File = <<>>
                      THEN [host |-> h3, result |-> "error",
                            err |-> "cannot have a blank file"]
                      ELSE [host |-> h3, result |-> "nil", err |-> ""]

\* The loop of SpecData.Validate over the hosts in the order `order`, from its
\* k-th element: each host is validated in place, the first failure ends it.
RECURSIVE ValidateFrom(_, _, _, _)
ValidateFrom(hosts, order, k, u) ==
    IF k > Len(order)
    THEN [hosts |-> hosts, result |-> "nil", err |-> ""]
    ELSE LET r == HostSpec_Validate(hosts[order[k]], u)
             hosts1 == [hosts EXCEPT ![order[k]] = r.host]
         IN  IF r.result # "nil"
             THEN [hosts |-> hosts1, result |-> r.result, err |-> r.err]
             ELSE ValidateFrom(hosts1, order, k + 1, u)

\* SpecData.Validate: an empty map is an error, otherwise the loop.
SpecData_Validate_Result(hosts, order, u) ==
    IF DOMAIN hosts = {}
    THEN [hosts |-> hosts, result |-> "error",
          err |-> "hosts must have at least one definition"]
    ELSE ValidateFrom(hosts, order, 1, u)

\* The orders in which `range s.Hosts` can visit the keys of the map.
RangeOrders(hosts) ==
    {o \in [1..Cardinality(DOMAIN hosts) -> DOMAIN hosts] :
        \A a, b \in DOMAIN o : a # b => o[a] # o[b]}

\* One call of SpecData.Validate on the loaded spec.
SpecData_Validate ==
    /\ Alive
    /\ specData.phase \in {"loaded", "validated"}
    /\ specData.runs < MaxValidations
    /\ \E o \in RangeOrders(specData.hosts) :
         LET r == SpecData_Validate_Result(specData.hosts, o, specData.user)
         IN  /\ specData' = [specData EXCEPT
                                !.phase = "validated",
                                !.before = specData.hosts,
                                !.beforeResult = specData.result,
                                !.hosts = r.hosts,
                                !.result = r.result,
                                !.err = r.err,
                                !.runs = @ + 1]
             /\ panicked' = IF r.result = "panic" THEN "nil dereference" ELSE panicked
    /\ UNCHANGED <<wait, variant, build, sess, gor, prod, wgCount, chans, w, out,
                   ctxDone, caller, cls, dsp, sig>>

NextValidate == SpecData_Validate

\* A spec file with up to MaxSpecHosts hosts has been unmarshalled; the tail
\* itself has not been constructed.
InitValidate ==
    /\ InitWriter({"session"}, {<<>>}, 0)
    /\ wait = NoWait
    /\ \E n \in 0..MaxSpecHosts : \E hs \in [1..n -> HostSpecs] : \E u \in OsUsers :
         specData = [phase |-> "loaded", hosts |-> hs, input |-> hs, before |-> hs,
                     beforeResult |-> "none", result |-> "none", err |-> "",
                     runs |-> 0, user |-> u]

SpecValidate == InitValidate /\ [][NextValidate]_vars

\* The latest Validate call was made on hosts that a Validate call had accepted.
ValidatedAgain == specData.runs >= 2 /\ specData.beforeResult = "nil"

BlankHost(h) == h.Hostname = "" \/ h.File = <<>>

MaxPortPolls == 2
MaxProbes == 3

\* An error value: its message, piece by piece, and the error it wraps (%w).
NilError == [text |-> <<>>, wraps |-> "nil"]
NewError(msg) == [text |-> <<msg>>, wraps |-> "nil"]

\* fmt.Errorf(prefix + "%w", err) and fmt.Errorf("%s:%w", a, err): the message
\* has the pieces in order, and only the %w operand is wrapped.
Errorf(pieces, wrapped) ==
    [text |-> pieces \o <<IF wrapped = "nil" THEN "%!w(<nil>)" ELSE wrapped>>,
     wraps |-> wrapped]

\* ctx.Err() of the context made by context.WithTimeout(ctx, timeout).
CtxErr(c) ==
    CASE c = "expired"  -> "context deadline exceeded"
      [] c = "canceled" -> "context canceled"
      [] OTHER          -> "nil"

\* What one run of the probe command can meet: the dial fails, the session
\* cannot be opened, the command exits with a status, or the connection ends
\* without an exit status.
ProbeRuns == {"dial fails", "session fails", "exit 0", "exit 1", "no exit status"}

\* SshProbe.Run: the error it returns, with its dynamic type.
SshProbe_Run(r) ==
    CASE r = "dial fails" ->
             [type |-> "wrapError", status |-> -1,
              err |-> Errorf(<<"ssh dial failed: ">>, "connection refused")]
      [] r = "session fails" ->
             [type |-> "wrapError", status |-> -1,
              err |-> Errorf(<<"ssh session creation failed: ">>, "open failed")]
      [] r = "exit 0" ->
             [type |-> "nil", status |-> 0, err |-> NilError]
      [] r = "exit 1" ->
             [type |-> "ExitError", status |-> 1,
              err |-> NewError("Process exited with status 1")]
      [] OTHER ->
             [type |-> "ExitMissingError", status |-> -1,
              err |-> NewError("wait: remote command exited without exit status")]

\* What target.MappedPort can answer: a port with its protocol, or no port
\* with or without an error.
MappedPorts ==
    {[port |-> "2222/tcp", proto |-> "tcp", err |-> "nil"],
     [port |-> "2222/udp", proto |-> "udp", err |-> "nil"],
     [port |-> "", proto |-> "", err |-> "port not found"],
     [port |-> "", proto |-> "", err |-> "nil"]}

Wait_Return(err, via) ==
    wait' = [wait EXCEPT !.pc = "returned", !.ret = err, !.via = via]

\* ipAddress, err := target.Host(ctx); if err != nil { return err }
Wait_Host ==
    /\ Alive
    /\ wait.pc = "host"
    /\ \/ Wait_Return(NewError("host error"), "host")
       \/ wait' = [wait EXCEPT !.pc = "mappedPort"]
    /\ UNCHANGED <<specData, variant, build, sess, gor, prod, wgCount, chans, w,
                   out, ctxDone, panicked, caller, cls, dsp, sig>>

\* port, err = target.MappedPort(ctx, s.Port), before the first loop.
Wait_MappedPort ==
    /\ Alive
    /\ wait.pc = "mappedPort"
    /\ \E m \in MappedPorts :
         wait' = [wait EXCEPT !.pc = "portLoop", !.port = m.port,
                              !.proto = m.proto, !.err = m.err]
    /\ UNCHANGED <<specData, variant, build, sess, gor, prod, wgCount, chans, w,
                   out, ctxDone, panicked, caller, cls, dsp, sig>>

\* for port == "" { select { case <-ctx.Done(): ... } }
Wait_PortLoop_Done ==
    /\ Alive
    /\ wait.pc = "portLoop"
    /\ wait.port = ""
    /\ wait.ctx # "live"
    /\ Wait_Return(Errorf(<<CtxErr(wait.ctx), ":">>, wait.err), "ctx.Done")
    /\ UNCHANGED <<specData, variant, build, sess, gor, prod, wgCount, chans, w,
                   out, ctxDone, panicked, caller, cls, dsp, sig>>

\* for port == "" { select { case <-time.After(s.PollInterval): ... } }
Wait_PortLoop_Poll ==
    /\ Alive
    /\ wait.pc = "portLoop"
    /\ wait.port = ""
    /\ wait.portPolls < MaxPortPolls
    /\ \E m \in MappedPorts :
         IF m.err # "nil"
         THEN wait' = [wait EXCEPT !.pc = "returned", !.ret = NewError(m.err), !.via = "mappedPort",
                                   !.port = m.port, !.proto = m.proto, !.err = m.err,
                                   !.portPolls = @ + 1]
         ELSE wait' = [wait EXCEPT !.port = m.port, !.proto = m.proto, !.err = m.err,
                                   !.portPolls = @ + 1]
    /\ UNCHANGED <<specData, variant, build, sess, gor, prod, wgCount, chans, w,
                   out, ctxDone, panicked, caller, cls, dsp, sig>>

\* if port.Proto() != "tcp" { return errors.New(...) }; sshCmd := ...
Wait_CheckProto ==
    /\ Alive
    /\ wait.pc = "portLoop"
    /\ wait.port # ""
    /\ IF wait.proto # "tcp"
       THEN Wait_Return(NewError("cannot use SSH client on non-TCP ports"), "proto")
       ELSE wait' = [wait EXCEPT !.pc = "probeLoop"]
    /\ UNCHANGED <<specData, variant, build, sess, gor, prod, wgCount, chans, w,
                   out, ctxDone, panicked, caller, cls, dsp, sig>>

\* for { select { case <-ctx.Done(): return ctx.Err() } }
Wait_ProbeLoop_Done ==
    /\ Alive
    /\ wait.pc = "probeLoop"
    /\ wait.ctx # "live"
    /\ Wait_Return(NewError(CtxErr(wait.ctx)), "ctx.Done")
    /\ UNCHANGED <<specData, variant, build, sess, gor, prod, wgCount, chans, w,
                   out, ctxDone, panicked, caller, cls, dsp, sig>>

\* for { select { case <-time.After(s.PollInterval): err = sshCmd.Run() ... } }
\* nil is exit code 0, an *ssh.ExitError gives its exit status, any other
\* error is returned; a non-zero exit code continues the loop.
Wait_ProbeLoop_Poll ==
    /\ Alive
    /\ wait.pc = "probeLoop"
    /\ wait.probes < MaxProbes
    /\ \E r \in ProbeRuns :
         LET run == SshProbe_Run(r)
             exitCode == IF run.type = "nil" THEN 0 ELSE run.status
         IN  IF run.type \notin {"nil", "ExitError"}
             THEN wait' = [wait EXCEPT !.pc = "returned", !.ret = run.err, !.via = "probe",
                                       !.probe = r, !.probes = @ + 1]
             ELSE IF exitCode # 0
             THEN wait' = [wait EXCEPT !.probe = r, !.probes = @ + 1]
             ELSE wait' = [wait EXCEPT !.pc = "returned", !.ret = NilError, !.via = "probe",
                                       !.probe = r, !.probes = @ + 1]
    /\ UNCHANGED <<specData, variant, build, sess, gor, prod, wgCount, chans, w,
                   out, ctxDone, panicked, caller, cls, dsp, sig>>

\* The startup timeout of context.WithTimeout(ctx, timeout) expires.
Wait_Timeout ==
    /\ Alive
    /\ wait.pc \notin {"none", "returned"}
    /\ wait.ctx = "live"
    /\ wait' = [wait EXCEPT !.ctx = "expired"]
    /\ UNCHANGED <<specData, variant, build, sess, gor, prod, wgCount, chans, w,
                   out, ctxDone, panicked, caller, cls, dsp, sig>>

\* The caller cancels the context it passed to WaitUntilReady.
Wait_ParentCancel ==
    /\ Alive
    /\ wait.pc \notin {"none", "returned"}
    /\ wait.ctx = "live"
    /\ wait' = [wait EXCEPT !.ctx = "canceled"]
    /\ UNCHANGED <<specData, variant, build, sess, gor, prod, wgCount, chans, w,
                   out, ctxDone, panicked, caller, cls, dsp, sig>>

NextWait ==
    \/ Wait_Host
    \/ Wait_MappedPort
    \/ Wait_PortLoop_Done
    \/ Wait_PortLoop_Poll
    \/ Wait_CheckProto
    \/ Wait_ProbeLoop_Done
    \/ Wait_ProbeLoop_Poll
    \/ Wait_Timeout
    \/ Wait_ParentCancel

\* WaitUntilReady has been called and has armed its timeout.
InitWait ==
    /\ InitWriter({"session"}, {<<>>}, 0)
    /\ specData = NoSpecData
    /\ wait = [pc |-> "host", ctx |-> "live", port |-> "", proto |-> "",
               err |-> "nil", probe |-> "none", portPolls |-> 0, probes |-> 0,
               ret |-> NilError, via |-> "none"]

SpecWait == InitWait /\ [][NextWait]_vars


\* The step runs the probe once; the step makes WaitUntilReady return.
ProbeStep == wait'.probes = wait.probes + 1
ReturnStep == wait.pc # "returned" /\ wait'.pc = "returned"

\* C37: WaitUntilReady returns nil only in the step of a probe that exited with
\* status 0; a probe that exits with a non-zero status leaves it polling; any
\* other probe error is returned by the step that ran the probe; and when the
\* expired startup timeout makes it return, it returns the context's error.
C37_WaitUntilReadyOutcomes ==
    [][/\ (ReturnStep /\ wait'.ret = NilError) =>
              ProbeStep /\ wait'.probe = "exit 0"
       /\ (ProbeStep /\ wait'.probe = "exit 1") =>
              wait'.pc = "probeLoop" /\ wait'.ret = wait.ret
       /\ (ProbeStep /\ wait'.probe \notin {"exit 0", "exit 1"}) =>
              ReturnStep /\ wait'.ret = SshProbe_Run(wait'.probe).err
       /\ (ReturnStep /\ wait'.via = "ctx.Done" /\ wait.ctx = "expired") =>
              wait'.ret = NewError("context deadline exceeded")]_vars

====
